---- MODULE Spec2Model ----
(***************************************************************************)
(* The autonomous agent orchestrator (src/components/AutonomousAgent.ts)   *)
(* driven by the page that owns it (src/pages/index.tsx).                  *)
(*                                                                         *)
(* JavaScript runs each stretch of synchronous code atomically, so one     *)
(* action is one stretch of the agent's code between two suspension        *)
(* points: a control call from the page, the resolution of a request to    *)
(* the Planning Service, or the firing of a pacing timer.  An await on an  *)
(* already settled promise continues in the same stretch.                  *)
(*                                                                         *)
(* Beside the agent: the demo-token store (src/pages/api/tokens/manage.ts) *)
(* with its browser-side wrappers (src/utils/database.ts) and the          *)
(* multi-provider LLM client (src/services/agent-service.ts).  A request   *)
(* handler of the store is one action per stretch between two queries; a   *)
(* query takes effect when it is issued, because the handlers share one    *)
(* connection and the connection runs queries in the order they are sent.  *)
(***************************************************************************)
EXTENDS Integers, Sequences, FiniteSets, TLC

\* ------------------------------------------------------------ bounds
MaxInitialTasks == 2      \* most task strings one StartGoal answer holds
MaxNewTasks == 2          \* most task strings one CreateTasks answer holds
MaxTasks == 3             \* most Task records created in one behaviour
MaxStops == 2             \* most stop() calls in one behaviour
MaxRuns == 2              \* most run() activations in flight at once
MaxCustomLoops == 2       \* largest explicitly configured max-loop value
MaxResumes == 2           \* most resume() calls made past the Continue button
MaxHandlers == 2          \* most requests to the token store in flight at once
MaxTime == 4              \* the clock stops after this many ticks
MaxAmount == 2            \* largest tokensToConsume of one request
MaxRequests == 3          \* most requests the tabs send to the token store
MaxCalls == 4             \* most calls of the browser's token functions
MaxLLMCalls == 1          \* most calls of the LLM client
MaxPromptLength == 9      \* longest prompt, in characters
MaxResponseLength == 3    \* longest completion, in characters
MaxPieces == 4            \* most pieces a string given to removeTaskPrefix is made of
MaxListLength == 2        \* most strings in a list given to JSON.stringify
MaxCompleted == 8         \* most completed tasks handed to createTasksAgent
MaxRemaining == 5         \* most remaining tasks handed to createTasksAgent
MaxServed == 5            \* most requests the middleware answers
MaxClock == 6             \* the limiter's clock stops here
REQUESTS_PER_MINUTE == 2  \* RATE_LIMITER_REQUESTS_PER_MINUTE, scaled from 100
CLEANUP_INTERVAL == 2     \* one minute, in ticks of the limiter's clock
DEMO_TOKEN_LIMIT == 2     \* the allowance, scaled down
TOKEN_RESET_HOURS == 3    \* the reset window, in ticks of the clock
CACHE_TTL == 2            \* the 30 s a cached status stays fresh, in ticks

\* ------------------------------------------------- program constants
DEFAULT_MAX_LOOPS_FREE == 4
DEFAULT_MAX_LOOPS_PAID == 16
DEFAULT_MAX_LOOPS_CUSTOM_API_KEY == 50
DEFAULT_TOKENS_REMAINING == 10000

AUTOMATIC_MODE == "Automatic Mode"
PAUSE_MODE == "Pause Mode"
AGENT_PLAY == "play"
AGENT_PAUSE == "pause"
TASK_STATUS_STARTED == "started"
TASK_STATUS_EXECUTING == "executing"
TASK_STATUS_COMPLETED == "completed"
TASK_STATUS_FINAL == "final"
MESSAGE_TYPE_TASK == "task"
MESSAGE_TYPE_GOAL == "goal"
MESSAGE_TYPE_THINKING == "thinking"
MESSAGE_TYPE_SYSTEM == "system"

VARIABLES
  \* configuration handed to the constructor
  mode, modelSettings, guestSettings, session, isWebSearchEnabled,
  \* fields of the AutonomousAgent object
  isRunning, playbackControl, numLoops, currentTask, completedTasks,
  \* the page's stores: agent handle, pause flag, message list, task list
  agent, isAgentPaused, messages, tasks,
  \* activations of run(): where each one is suspended, and its locals
  runs,
  \* uuid source
  nextId,
  \* observations of the environment
  shutdownCalls, stopCalls, startGoalCalls, raised, createdNone,
  createCalled, unhandledRejection, stoppedNoResume, directResumes,
  \* the token store: table demo_tokens, the clock, the requests being
  \* handled, and per row the amounts granted since its last reset
  demo_tokens, now, handlers, granted, requests,
  \* the browser: the status cached in localStorage, and the call of a
  \* token function of utils/database.ts that is under way
  cache, client,
  \* the call of the LLM client in progress (services/agent-service.ts)
  llm,
  \* the last call of a function of utils/helpers.ts or of an agent
  \* function of services/agent-service.ts, with what it returned
  call,
  \* the rate limiter of the agent routes (server/redis.ts): its clock, its
  \* map and lastCleanup, and the requests the middleware has answered
  limiter

config == <<mode, modelSettings, guestSettings, session, isWebSearchEnabled>>
fields == <<isRunning, playbackControl, numLoops, currentTask, completedTasks>>
stores == <<agent, isAgentPaused, messages, tasks>>
observed == <<shutdownCalls, stopCalls, startGoalCalls, raised, createdNone,
              createCalled, unhandledRejection, stoppedNoResume, directResumes>>
tokenStore == <<demo_tokens, now, handlers, granted, requests>>
browser == <<cache, client>>
outside == <<tokenStore, browser, llm, call, limiter>>
agentVars == <<config, fields, stores, runs, nextId, observed>>
beyondStore == <<agentVars, browser, llm, call, limiter>>
beyondClient == <<agentVars, llm, call, limiter>>
beyondLLM == <<agentVars, browser, call, limiter>>
beyondCall == <<agentVars, tokenStore, browser, llm, limiter>>
beyondLimiter == <<agentVars, tokenStore, browser, llm, call>>
vars == <<config, fields, stores, runs, nextId, observed, outside>>

\* ------------------------------------------------------------ helpers
Last(s) == s[Len(s)]

SelectIdx(s, P(_)) == {i \in 1..Len(s) : P(s[i])}

\* The configurations explored: one settings object per way the key check
\* and the explicit loop budget can come out.
ModelSettingsChoices ==
  { [llmProvider |-> "", groqApiKey |-> FALSE, openrouterApiKey |-> FALSE,
     cohereApiKey |-> FALSE, customApiKey |-> FALSE,
     customMaxLoops |-> DEFAULT_MAX_LOOPS_FREE],
    [llmProvider |-> "openrouter", groqApiKey |-> TRUE, openrouterApiKey |-> FALSE,
     cohereApiKey |-> FALSE, customApiKey |-> FALSE,
     customMaxLoops |-> DEFAULT_MAX_LOOPS_FREE],
    [llmProvider |-> "cohere", groqApiKey |-> FALSE, openrouterApiKey |-> FALSE,
     cohereApiKey |-> FALSE, customApiKey |-> TRUE,
     customMaxLoops |-> 0] }
  \cup
  { [llmProvider |-> "groq", groqApiKey |-> TRUE, openrouterApiKey |-> FALSE,
     cohereApiKey |-> FALSE, customApiKey |-> FALSE,
     customMaxLoops |-> n] : n \in 1..MaxCustomLoops }

GuestSettingsChoices ==
  { [isGuestMode |-> FALSE, isValidGuest |-> FALSE],
    [isGuestMode |-> TRUE, isValidGuest |-> TRUE],
    [isGuestMode |-> TRUE, isValidGuest |-> FALSE] }

\* session?.user.subscriptionId: absent, or a subscription
SessionChoices == {"none", "subscribed"}

\* ----------------------------------------------------------- messages
NoTask == 0

Msg(type, kind, taskId, status, parent) ==
  [type |-> type, kind |-> kind, taskId |-> taskId, status |-> status,
   parentTaskId |-> parent]

TaskMsg(taskId, status, parent) ==
  Msg(MESSAGE_TYPE_TASK, "task", taskId, status, parent)

isTask(m) == m.type = MESSAGE_TYPE_TASK

\* The message store: a task message with status STARTED adds a Task record,
\* any later task message overwrites the status of the record with its id.
updateTaskStatus(ts, m) ==
  IF m.status = TASK_STATUS_STARTED THEN ts
  ELSE [i \in 1..Len(ts) |->
          IF ts[i].taskId = m.taskId THEN [ts[i] EXCEPT !.status = m.status]
          ELSE ts[i]]

addMessage(s, m) ==
  [s EXCEPT !.messages = Append(@, m),
            !.tasks = IF isTask(m) /\ m.status = TASK_STATUS_STARTED
                      THEN Append(@, [taskId |-> m.taskId, status |-> m.status,
                                      parentTaskId |-> m.parentTaskId])
                      ELSE @]

handleAddMessage(s, m) ==
  addMessage(IF isTask(m) THEN [s EXCEPT !.tasks = updateTaskStatus(@, m)] ELSE s, m)

updateIsAgentPaused(s, control) ==
  [s EXCEPT !.isAgentPaused = (control = AGENT_PAUSE)]

handlePause(s) == updateIsAgentPaused(s, s.playbackControl)

\* shutdown callback handed to the constructor: () => setAgent(null)
shutdown(s) ==
  [s EXCEPT !.agent = "null", !.shutdownCalls = @ + 1]

\* -------------------------------------------------- the agent's methods
\* The mutable state the methods below read and write, as one record.
Now ==
  [isRunning |-> isRunning, playbackControl |-> playbackControl,
   numLoops |-> numLoops, currentTask |-> currentTask,
   completedTasks |-> completedTasks, agent |-> agent,
   isAgentPaused |-> isAgentPaused, messages |-> messages, tasks |-> tasks,
   shutdownCalls |-> shutdownCalls]

Commit(s) ==
  /\ isRunning' = s.isRunning
  /\ playbackControl' = s.playbackControl
  /\ numLoops' = s.numLoops
  /\ currentTask' = s.currentTask
  /\ completedTasks' = s.completedTasks
  /\ agent' = s.agent
  /\ isAgentPaused' = s.isAgentPaused
  /\ messages' = s.messages
  /\ tasks' = s.tasks
  /\ shutdownCalls' = s.shutdownCalls

hasValidApiKey ==
  LET provider == IF modelSettings.llmProvider = "" THEN "groq"
                  ELSE modelSettings.llmProvider
  IN CASE provider = "groq" ->
            modelSettings.groqApiKey \/ modelSettings.customApiKey
       [] provider = "openrouter" ->
            modelSettings.openrouterApiKey \/ modelSettings.customApiKey
       [] provider = "cohere" ->
            modelSettings.cohereApiKey \/ modelSettings.customApiKey
       [] OTHER -> modelSettings.customApiKey

\* mutant of maxLoops: the configured value is not read
maxLoopsUnconfigured ==
  IF hasValidApiKey THEN DEFAULT_MAX_LOOPS_CUSTOM_API_KEY
  ELSE IF session = "subscribed" THEN DEFAULT_MAX_LOOPS_PAID
  ELSE DEFAULT_MAX_LOOPS_FREE

maxLoops ==
  LET defaultLoops == IF session = "subscribed" THEN DEFAULT_MAX_LOOPS_PAID
                      ELSE DEFAULT_MAX_LOOPS_FREE
  IN IF hasValidApiKey
     THEN (IF modelSettings.customMaxLoops # 0 THEN modelSettings.customMaxLoops
           ELSE DEFAULT_MAX_LOOPS_CUSTOM_API_KEY)
     ELSE defaultLoops

\* mutant of sendMessage: the running flag is not consulted
sendMessageUnguarded(s, m) == handleAddMessage(s, m)

sendMessage(s, m) ==
  IF s.isRunning THEN handleAddMessage(s, m) ELSE s

sendSystemMessage(s, kind) ==
  sendMessage(s, Msg(MESSAGE_TYPE_SYSTEM, kind, s.currentTask, "none", NoTask))

sendGoalMessage(s) ==
  sendMessage(s, Msg(MESSAGE_TYPE_GOAL, "goal", NoTask, "none", NoTask))

sendThinkingMessage(s, taskId) ==
  sendMessage(s, Msg(MESSAGE_TYPE_THINKING, "thinking", taskId, "none", NoTask))

sendAnalysisMessage(s, taskId) ==
  sendMessage(s, Msg(MESSAGE_TYPE_SYSTEM, "analysis", taskId, "none", NoTask))

sendErrorMessage(s, kind) == sendSystemMessage(s, kind)

sendLoopMessage(s) == sendSystemMessage(s, "loop-limit")

sendCompletedMessage(s) == sendSystemMessage(s, "all-tasks-completed")

sendManualShutdownMessage(s) == sendSystemMessage(s, "manually-shutdown")

\* mutant of stopAgent: the flag is cleared before the message is sent
stopAgentFlagFirst(s) ==
  shutdown(sendManualShutdownMessage([s EXCEPT !.isRunning = FALSE]))

stopAgent(s) ==
  shutdown([sendManualShutdownMessage(s) EXCEPT !.isRunning = FALSE])

\* mutant of getRemainingTasks: the STARTED tasks, newest first
getRemainingTasksNewestFirst(ts) ==
  LET rem == SelectSeq(ts, LAMBDA t : t.status = TASK_STATUS_STARTED)
  IN [i \in 1..Len(rem) |-> rem[Len(rem) + 1 - i]]

getRemainingTasks(ts) == SelectSeq(ts, LAMBDA t : t.status = TASK_STATUS_STARTED)

\* mutant of conditionalPause: a play command is not used up
conditionalPauseKeepsPlaying(s) ==
  IF mode # PAUSE_MODE THEN s
  ELSE [s EXCEPT !.isRunning = ~(s.playbackControl = AGENT_PAUSE)]

conditionalPause(s) ==
  IF mode # PAUSE_MODE THEN s
  ELSE [s EXCEPT !.isRunning = ~(s.playbackControl = AGENT_PAUSE),
                 !.playbackControl = AGENT_PAUSE]

\* mutant of loop: the budget is compared one too low
loopOneShort(s) ==
  LET p == conditionalPause(s) IN
  IF ~p.isRunning THEN [s |-> p, pc |-> "return"]
  ELSE IF Len(getRemainingTasks(p.tasks)) = 0
       THEN [s |-> shutdown(sendCompletedMessage(p)), pc |-> "return"]
  ELSE LET q == [p EXCEPT !.numLoops = @ + 1] IN
       IF q.numLoops >= maxLoops
       THEN [s |-> shutdown(sendLoopMessage(q)), pc |-> "return"]
       ELSE [s |-> q, pc |-> "delay1"]

\* mutant of loop: the budget is compared one too high
loopOffByOne(s) ==
  LET p == conditionalPause(s) IN
  IF ~p.isRunning THEN [s |-> p, pc |-> "return"]
  ELSE IF Len(getRemainingTasks(p.tasks)) = 0
       THEN [s |-> shutdown(sendCompletedMessage(p)), pc |-> "return"]
  ELSE LET q == [p EXCEPT !.numLoops = @ + 1] IN
       IF q.numLoops > maxLoops + 1
       THEN [s |-> shutdown(sendLoopMessage(q)), pc |-> "return"]
       ELSE [s |-> q, pc |-> "delay1"]

\* loop() from its entry to its first suspension or its return
loop(s) ==
  LET p == conditionalPause(s) IN
  IF ~p.isRunning THEN [s |-> p, pc |-> "return"]
  ELSE IF Len(getRemainingTasks(p.tasks)) = 0
       THEN [s |-> shutdown(sendCompletedMessage(p)), pc |-> "return"]
  ELSE LET q == [p EXCEPT !.numLoops = @ + 1] IN
       IF q.numLoops > maxLoops
       THEN [s |-> shutdown(sendLoopMessage(q)), pc |-> "return"]
       ELSE [s |-> q, pc |-> "delay1"]

\* run() after loop() has returned
runEnd(s) ==
  IF mode = PAUSE_MODE /\ ~s.isRunning THEN handlePause(s) ELSE s

\* ------------------------------------------------------- activations
Idle == [pc |-> "idle", cur |-> NoTask, left |-> 0, newTasks |-> <<>>]

Slots == 1..MaxRuns

FreeSlots == {r \in Slots : runs[r].pc = "idle"}

FreeSlot == CHOOSE r \in FreeSlots : \A q \in FreeSlots : r <= q

AllIdle == \A r \in Slots : runs[r].pc = "idle"

\* The activation in slot r calls loop() with the agent in state s.
EnterLoop(r, s) ==
  LET o == loop(s) IN
  IF o.pc = "return"
  THEN Commit(runEnd(o.s)) /\ runs' = [runs EXCEPT ![r] = Idle]
  ELSE Commit(o.s) /\ runs' = [runs EXCEPT ![r] = [Idle EXCEPT !.pc = "delay1"]]

\* mutant of callerRejected: the validity of the guest key is read the wrong way round
callerRejectedValidGuest ==
  guestSettings.isGuestMode /\ guestSettings.isValidGuest /\ ~hasValidApiKey

\* startGoal's guard: the caller may not run
callerRejected ==
  guestSettings.isGuestMode /\ ~guestSettings.isValidGuest /\ ~hasValidApiKey

\* ---------------------------------------------------- the token store
\* Two tabs of one browser: a session token each (sessionStorage), one
\* cookie id between them (localStorage).
Tabs == { [sessionToken |-> "s1", cookieId |-> "c1"],
          [sessionToken |-> "s2", cookieId |-> "c1"] }

Handlers == 1..MaxHandlers

Amounts == 0..MaxAmount

\* the amounts sent to the store directly: up to one more than the allowance
StoreAmounts == 0..(DEMO_TOKEN_LIMIT + 1)

NoRow == [id |-> 0, session_token |-> "", cookie_id |-> "", tokens_used |-> 0,
          tokens_remaining |-> 0, reset_at |-> 0]

NoResponse == [status |-> 0, tokensUsed |-> 0, tokensRemaining |-> 0,
               resetAt |-> 0, canUseTokens |-> FALSE, isReset |-> FALSE]

IdleHandler == [method |-> "none", pc |-> "idle", sessionToken |-> "",
                cookieId |-> "", tokensToConsume |-> 0, rows |-> {},
                user |-> NoRow, now |-> 0, res |-> NoResponse]

TokenStoreInit ==
  /\ demo_tokens = <<>>
  /\ now = 0
  /\ handlers = [h \in Handlers |-> IdleHandler]
  /\ granted = [i \in 1..Cardinality(Tabs) |-> 0]
  /\ requests = 0

\* TokenStatus
Status(used, remaining, resetAt, can) ==
  [tokensUsed |-> used, tokensRemaining |-> remaining, resetAt |-> resetAt,
   canUseTokens |-> can]

NoStatus == Status(0, 0, 0, FALSE)

\* the part of SessionCache the token functions use; statusAt is no field
\* of it: it records when tokenStatus was answered by the store
NoCache == [exists |-> FALSE, sessionToken |-> "", hasStatus |-> FALSE,
            tokenStatus |-> NoStatus, lastSync |-> 0, statusAt |-> 0]

NoResult == [served |-> "none", status |-> NoStatus, success |-> FALSE,
             error |-> ""]

IdleClient == [fn |-> "none", pc |-> "idle", h |-> 0, sessionToken |-> "",
               tokensToConsume |-> 0, result |-> NoResult]

BrowserInit ==
  /\ cache = NoCache
  /\ client = IdleClient

\* the LLM client between calls; report and sent record, for each attempt of
\* a call, what its token check found and whether it sent the provider a
\* request; charged counts the consume requests of the operation under way
\* that the store answered with 200
IdleLLM ==
  [pc |-> "idle", sessionToken |-> "", apiKey |-> "",
   promptLength |-> 0, responseLength |-> 0, attempt |-> "none", tries |-> 0,
   h |-> 0, calls |-> 0, gateRequests |-> 0, charged |-> 0,
   report |-> [streaming |-> "none", fallback |-> "none"],
   sent |-> [streaming |-> FALSE, fallback |-> FALSE],
   error |-> "none", returned |-> "none", message |-> "none"]

NoCall == [fn |-> "none", args |-> <<>>, raised |-> FALSE, value |-> <<>>]

\* the module as loaded: an empty map, lastCleanup = 0.  Date.now() counts
\* from 1970, so the first request comes no sooner than one cleanup
\* interval after 0.
LimiterLoaded ==
  [now |-> CLEANUP_INTERVAL, rateLimitMap |-> <<>>, lastCleanup |-> 0,
   served |-> <<>>]

OutsideInit ==
  /\ TokenStoreInit /\ BrowserInit /\ llm = IdleLLM /\ call = NoCall
  /\ limiter = LimiterLoaded

\* ------------------------------------------------------- initial state
\* the fields as the constructor leaves them, and the page before a goal
Constructed ==
  /\ isRunning = FALSE
  /\ playbackControl = IF mode = PAUSE_MODE THEN AGENT_PAUSE ELSE AGENT_PLAY
  /\ numLoops = 0
  /\ currentTask = NoTask
  /\ completedTasks = <<>>
  /\ agent = "unborn"
  /\ isAgentPaused = FALSE
  /\ messages = <<>>
  /\ tasks = <<>>
  /\ runs = [r \in Slots |-> Idle]
  /\ nextId = 1
  /\ shutdownCalls = 0
  /\ stopCalls = 0
  /\ startGoalCalls = 0
  /\ raised = {}
  /\ createdNone = FALSE
  /\ createCalled = FALSE
  /\ unhandledRejection = FALSE
  /\ stoppedNoResume = FALSE
  /\ directResumes = 0

Init ==
  /\ mode \in {AUTOMATIC_MODE, PAUSE_MODE}
  /\ modelSettings \in ModelSettingsChoices
  /\ guestSettings \in GuestSettingsChoices
  /\ session \in SessionChoices
  /\ isWebSearchEnabled \in BOOLEAN
  /\ Constructed
  /\ OutsideInit

\* ------------------------------------------------------------ actions
parentOf(id) ==
  LET hit == SelectIdx(tasks, LAMBDA t : t.taskId = id)
  IN IF hit = {} THEN NoTask ELSE tasks[CHOOSE i \in hit : TRUE].parentTaskId

Reject(r) ==
  /\ runs' = [runs EXCEPT ![r] = Idle]
  /\ unhandledRejection' = TRUE

\* handleNewGoal: new AutonomousAgent(...), setAgent(agent), agent.run();
\* run() sets isRunning and runs startGoal() up to its request to StartGoal.
HandleNewGoal ==
  /\ agent = "unborn"
  /\ LET r == FreeSlot
         s0 == [Now EXCEPT !.agent = "live", !.isRunning = TRUE]
     IN IF callerRejected
        THEN /\ EnterLoop(r, stopAgent(sendErrorMessage(s0, "invalid-guest-key")))
             /\ UNCHANGED startGoalCalls
        ELSE /\ Commit(sendThinkingMessage(sendGoalMessage(s0), NoTask))
             /\ runs' = [runs EXCEPT ![r] = [Idle EXCEPT !.pc = "getInitialTasks"]]
             /\ startGoalCalls' = startGoalCalls + 1
  /\ UNCHANGED <<outside, config, nextId, stopCalls, raised, createdNone, createCalled,
                 unhandledRejection, stoppedNoResume, directResumes>>

\* getInitialTasks() resolves with n task strings
InitialTasksReturn(r, n) ==
  /\ runs[r].pc = "getInitialTasks"
  /\ IF n = 0
     THEN EnterLoop(r, Now)
     ELSE /\ runs' = [runs EXCEPT ![r] = [Idle EXCEPT !.pc = "emitInitial", !.left = n]]
          /\ UNCHANGED <<fields, stores, shutdownCalls>>
  /\ UNCHANGED <<outside, config, nextId, stopCalls, startGoalCalls, raised, createdNone,
                 createCalled, unhandledRejection, stoppedNoResume, directResumes>>

\* why a request failed: the answer was HTTP 429, or anything else
Causes == {"429", "error"}

AnalysisActions == {"reason", "search"}

\* shouldRunClientSide(): with a valid API key the agent functions run in
\* the page, and only executeTask with a "search" analysis goes to the
\* server, through post(); without one every request goes to the server
\* through handleStreamingRequest()
shouldRunClientSide == hasValidApiKey

sentOverHttp(request, action) ==
  IF request = "ExecuteTask"
  THEN ~(shouldRunClientSide /\ action # "search")
  ELSE ~shouldRunClientSide

\* handleStreamingRequest throws new Error("HTTP error! status: ..."), an
\* Error that is no axios error; post() rethrows the axios error
thrownBy(request, action, cause) ==
  [axios |-> request = "ExecuteTask" /\ shouldRunClientSide /\ action = "search",
   status |-> cause]

getMessageFromError(e) ==
  IF e.axios
  THEN IF e.status = "429" THEN "accessing-using-apis" ELSE "accessing-apis"
  ELSE "initial-tasks"

\* the catch of post(): shutdown(), and the rate-limit message on a 429
postFailed(s, cause) ==
  LET t == shutdown(s) IN
  IF cause = "429" THEN sendErrorMessage(t, "rate-limit") ELSE t

Raised(request, cause) ==
  raised \cup {request} \cup (IF cause = "429" THEN {"HTTP 429"} ELSE {})

\* getInitialTasks() rejects, or resolves with something that is no list
InitialTasksRaise(r, cause) ==
  /\ runs[r].pc = "getInitialTasks"
  /\ cause = "429" => sentOverHttp("StartGoal", "reason")
  /\ EnterLoop(r, shutdown(sendErrorMessage(Now,
          getMessageFromError(thrownBy("StartGoal", "reason", cause)))))
  /\ raised' = Raised("StartGoal", cause)
  /\ UNCHANGED <<outside, config, nextId, stopCalls, startGoalCalls, createdNone,
                 createCalled, unhandledRejection, stoppedNoResume, directResumes>>

\* the pacing timer before an initial task fires: the task is emitted
InitialTaskTimer(r) ==
  /\ runs[r].pc = "emitInitial"
  /\ LET s1 == sendMessage(Now, TaskMsg(nextId, TASK_STATUS_STARTED, NoTask))
     IN IF runs[r].left = 1
        THEN EnterLoop(r, s1)
        ELSE /\ Commit(s1)
             /\ runs' = [runs EXCEPT ![r].left = @ - 1]
  /\ nextId' = nextId + 1
  /\ UNCHANGED <<outside, config, stopCalls, startGoalCalls, raised, createdNone,
                 createCalled, unhandledRejection, stoppedNoResume, directResumes>>

\* loop() after its first delay: take the first remaining task
LoopTimer(r) ==
  /\ runs[r].pc = "delay1"
  /\ LET rem == getRemainingTasks(tasks) IN
     IF Len(rem) = 0
     THEN \* { ...undefined, status } is emitted, then currentTask.taskId throws
          /\ Commit([sendMessage(Now, Msg("none", "none", NoTask,
                                         TASK_STATUS_EXECUTING, NoTask))
                       EXCEPT !.currentTask = NoTask])
          /\ Reject(r)
     ELSE LET cur == rem[1]
              s1 == sendMessage(Now, TaskMsg(cur.taskId, TASK_STATUS_EXECUTING,
                                             cur.parentTaskId))
              s2 == [s1 EXCEPT !.currentTask = cur.taskId]
          IN /\ Commit(sendThinkingMessage(s2, cur.taskId))
             /\ runs' = [runs EXCEPT ![r] =
                  [Idle EXCEPT !.pc = IF isWebSearchEnabled THEN "analyze"
                                      ELSE "execute",
                               !.cur = cur.taskId]]
             /\ UNCHANGED unhandledRejection
  /\ UNCHANGED <<outside, config, nextId, stopCalls, startGoalCalls, raised, createdNone,
                 createCalled, stoppedNoResume, directResumes>>

AnalyzeReturn(r) ==
  /\ runs[r].pc = "analyze"
  /\ Commit(sendAnalysisMessage(Now, runs[r].cur))
  /\ runs' = [runs EXCEPT ![r].pc = "execute"]
  /\ UNCHANGED <<outside, config, nextId, stopCalls, startGoalCalls, raised, createdNone,
                 createCalled, unhandledRejection, stoppedNoResume, directResumes>>

\* analyzeTask() rejects: nothing in loop() catches it
AnalyzeRaise(r, cause) ==
  /\ runs[r].pc = "analyze"
  /\ cause = "429" => sentOverHttp("AnalyzeTask", "reason")
  /\ Reject(r)
  /\ raised' = Raised("AnalyzeTask", cause)
  /\ UNCHANGED <<outside, config, fields, stores, nextId, shutdownCalls, stopCalls,
                 startGoalCalls, createdNone, createCalled, stoppedNoResume, directResumes>>

\* mutant of ExecuteReturn: the COMPLETED message is not emitted
ExecuteReturnSilent(r) ==
  /\ runs[r].pc = "execute"
  /\ Commit([Now EXCEPT !.completedTasks = Append(@, runs[r].cur)])
  /\ runs' = [runs EXCEPT ![r].pc = "delay2"]
  /\ UNCHANGED <<outside, config, nextId, stopCalls, startGoalCalls, raised, createdNone,
                 createCalled, unhandledRejection, stoppedNoResume, directResumes>>

ExecuteReturn(r) ==
  /\ runs[r].pc = "execute"
  /\ LET s1 == sendMessage(Now, TaskMsg(runs[r].cur, TASK_STATUS_COMPLETED,
                                        parentOf(runs[r].cur)))
     IN Commit([s1 EXCEPT !.completedTasks = Append(@, runs[r].cur)])
  /\ runs' = [runs EXCEPT ![r].pc = "delay2"]
  /\ UNCHANGED <<outside, config, nextId, stopCalls, startGoalCalls, raised, createdNone,
                 createCalled, unhandledRejection, stoppedNoResume, directResumes>>

\* executeTask() rejects: nothing in loop() catches it.  action is
\* analysis.action, "search" only when the analysis was made; nothing else
\* in the run depends on it, so it is drawn here.
ExecuteRaise(r, action, cause) ==
  /\ runs[r].pc = "execute"
  /\ action = "search" => isWebSearchEnabled
  /\ cause = "429" => sentOverHttp("ExecuteTask", action)
  /\ Commit(IF thrownBy("ExecuteTask", action, cause).axios
            THEN postFailed(Now, cause) ELSE Now)
  /\ Reject(r)
  /\ raised' = Raised("ExecuteTask", cause)
  /\ UNCHANGED <<outside, config, nextId, stopCalls,
                 startGoalCalls, createdNone, createCalled, stoppedNoResume, directResumes>>

\* loop() after its second delay: thinking message, request to CreateTasks
CreateTimer(r) ==
  /\ runs[r].pc = "delay2"
  /\ Commit(sendThinkingMessage(Now, runs[r].cur))
  /\ runs' = [runs EXCEPT ![r].pc = "create"]
  /\ createCalled' = TRUE
  /\ UNCHANGED <<outside, config, nextId, stopCalls, startGoalCalls, raised, createdNone,
                 unhandledRejection, stoppedNoResume, directResumes>>

\* mutant of CreateReturn: the current task is marked FINAL whatever the
\* number of new tasks
CreateReturnAlwaysFinal(r, k) ==
  /\ runs[r].pc = "create"
  /\ nextId + k - 1 <= MaxTasks
  /\ IF k = 0
     THEN /\ EnterLoop(r, sendMessage(Now, TaskMsg(runs[r].cur, TASK_STATUS_FINAL,
                                                  parentOf(runs[r].cur))))
          /\ createdNone' = TRUE
     ELSE /\ Commit(sendMessage(Now, TaskMsg(runs[r].cur, TASK_STATUS_FINAL,
                                             parentOf(runs[r].cur))))
          /\ runs' = [runs EXCEPT ![r].pc = "emitNew",
                                  ![r].newTasks = [i \in 1..k |-> nextId + i - 1]]
          /\ UNCHANGED createdNone
  /\ nextId' = nextId + k
  /\ UNCHANGED <<outside, config, stopCalls, startGoalCalls, raised, createCalled,
                 unhandledRejection, stoppedNoResume, directResumes>>

\* loop() once getAdditionalTasks() has resolved with k task strings
CreateAnswer(r, k) ==
  /\ runs[r].pc = "create"
  /\ IF k = 0
     THEN /\ EnterLoop(r, sendMessage(Now, TaskMsg(runs[r].cur, TASK_STATUS_FINAL,
                                                  parentOf(runs[r].cur))))
          /\ createdNone' = TRUE
     ELSE /\ runs' = [runs EXCEPT ![r].pc = "emitNew",
                                  ![r].newTasks = [i \in 1..k |-> nextId + i - 1]]
          /\ UNCHANGED <<fields, stores, shutdownCalls, createdNone>>
  /\ nextId' = nextId + k
  /\ UNCHANGED <<outside, config, stopCalls, startGoalCalls, raised, createCalled,
                 unhandledRejection, stoppedNoResume, directResumes>>

\* getAdditionalTasks() resolves with k task strings
CreateReturn(r, k) ==
  /\ nextId + k - 1 <= MaxTasks
  /\ CreateAnswer(r, k)

\* getAdditionalTasks() rejects, or resolves with something that is no list
CreateRaise(r, cause) ==
  /\ runs[r].pc = "create"
  /\ cause = "429" => sentOverHttp("CreateTasks", "reason")
  /\ EnterLoop(r, sendMessage(sendErrorMessage(Now, "adding-additional-task"),
                              TaskMsg(runs[r].cur, TASK_STATUS_FINAL,
                                      parentOf(runs[r].cur))))
  /\ raised' = Raised("CreateTasks", cause)
  /\ createdNone' = TRUE
  /\ UNCHANGED <<outside, config, nextId, stopCalls, startGoalCalls, createCalled,
                 unhandledRejection, stoppedNoResume, directResumes>>

\* the pacing timer before a follow-up task fires: the task is emitted
NewTaskTimer(r) ==
  /\ runs[r].pc = "emitNew"
  /\ LET s1 == sendMessage(Now, TaskMsg(Head(runs[r].newTasks),
                                        TASK_STATUS_STARTED, runs[r].cur))
     IN IF Len(runs[r].newTasks) = 1
        THEN EnterLoop(r, s1)
        ELSE /\ Commit(s1)
             /\ runs' = [runs EXCEPT ![r].newTasks = Tail(@)]
  /\ UNCHANGED <<outside, config, nextId, stopCalls, startGoalCalls, raised, createdNone,
                 createCalled, unhandledRejection, stoppedNoResume, directResumes>>

\* updatePlayBackControl(AGENT_PLAY); updateIsAgentPaused(...);
\* updateIsRunning(true); run()
resume ==
  LET s0 == [Now EXCEPT !.playbackControl = AGENT_PLAY]
      s1 == updateIsAgentPaused(s0, s0.playbackControl)
  IN [s1 EXCEPT !.isRunning = TRUE]

\* handleContinue, reached from the Continue button, which the page renders
\* only while isAgentPaused
HandleContinue ==
  /\ agent = "live"
  /\ isAgentPaused
  /\ FreeSlots # {}
  /\ EnterLoop(FreeSlot, resume)
  /\ stoppedNoResume' = FALSE
  /\ UNCHANGED <<outside, config, nextId, stopCalls, startGoalCalls, raised, createdNone,
                 createCalled, unhandledRejection, directResumes>>

\* handleStopAgent / handleTokensExhausted: agent.stopAgent()
StopAgent ==
  /\ agent # "unborn"
  /\ stopCalls < MaxStops
  /\ Commit(stopAgent(Now))
  /\ stopCalls' = stopCalls + 1
  /\ stoppedNoResume' = TRUE
  /\ UNCHANGED <<outside, config, runs, nextId, startGoalCalls, raised, createdNone,
                 createCalled, unhandledRejection, directResumes>>

\* resume() called on the agent handle itself, whatever the page shows
Resume ==
  /\ agent = "live"
  /\ mode = PAUSE_MODE
  /\ FreeSlots # {}
  /\ directResumes < MaxResumes
  /\ EnterLoop(FreeSlot, resume)
  /\ stoppedNoResume' = FALSE
  /\ directResumes' = directResumes + 1
  /\ UNCHANGED <<outside, config, nextId, stopCalls, startGoalCalls, raised, createdNone,
                 createCalled, unhandledRejection>>

Next ==
  \/ HandleNewGoal
  \/ \E r \in Slots : \E n \in 0..MaxInitialTasks : InitialTasksReturn(r, n)
  \/ \E r \in Slots : \E cause \in Causes : InitialTasksRaise(r, cause)
  \/ \E r \in Slots : InitialTaskTimer(r)
  \/ \E r \in Slots : LoopTimer(r)
  \/ \E r \in Slots : AnalyzeReturn(r)
  \/ \E r \in Slots : \E cause \in Causes : AnalyzeRaise(r, cause)
  \/ \E r \in Slots : ExecuteReturn(r)
  \/ \E r \in Slots : \E action \in AnalysisActions : \E cause \in Causes :
       ExecuteRaise(r, action, cause)
  \/ \E r \in Slots : CreateTimer(r)
  \/ \E r \in Slots : \E k \in 0..MaxNewTasks : CreateReturn(r, k)
  \/ \E r \in Slots : \E cause \in Causes : CreateRaise(r, cause)
  \/ \E r \in Slots : NewTaskTimer(r)
  \/ HandleContinue
  \/ StopAgent

Spec == Init /\ [][Next]_vars

\* The agent under any interleaving of the run-control calls with its steps
\* in flight: resume() is not held back by the Continue button.  Every
\* request to the Planning Service succeeds.
NextAnyInterleaving ==
  \/ HandleNewGoal
  \/ \E r \in Slots : \E n \in 0..MaxInitialTasks : InitialTasksReturn(r, n)
  \/ \E r \in Slots : InitialTaskTimer(r)
  \/ \E r \in Slots : LoopTimer(r)
  \/ \E r \in Slots : AnalyzeReturn(r)
  \/ \E r \in Slots : ExecuteReturn(r)
  \/ \E r \in Slots : CreateTimer(r)
  \/ \E r \in Slots : \E k \in 0..MaxNewTasks : CreateReturn(r, k)
  \/ \E r \in Slots : NewTaskTimer(r)
  \/ Resume
  \/ StopAgent

SpecAnyInterleaving == Init /\ [][NextAnyInterleaving]_vars

\* An unattended Automatic run in which nothing fails, nobody stops the
\* agent, StartGoal answers with no more tasks than the loop budget and
\* CreateTasks always answers with no task.  Timers fire and requests are
\* answered, so every step that can be taken eventually is.
InitAuto == Init /\ mode = AUTOMATIC_MODE

NextAuto ==
  \/ HandleNewGoal
  \/ \E r \in Slots : \E n \in 0..MaxInitialTasks :
        n <= maxLoops /\ InitialTasksReturn(r, n)
  \/ \E r \in Slots : InitialTaskTimer(r)
  \/ \E r \in Slots : LoopTimer(r)
  \/ \E r \in Slots : AnalyzeReturn(r)
  \/ \E r \in Slots : ExecuteReturn(r)
  \/ \E r \in Slots : CreateTimer(r)
  \/ \E r \in Slots : CreateReturn(r, 0)

SpecAuto == InitAuto /\ [][NextAuto]_vars /\ WF_vars(NextAuto)

\* ================================================== the token store
\* src/pages/api/tokens/manage.ts
Response(status, used, remaining, resetAt, can) ==
  [status |-> status, tokensUsed |-> used, tokensRemaining |-> remaining,
   resetAt |-> resetAt, canUseTokens |-> can, isReset |-> FALSE]

ErrorResponse(status) == Response(status, 0, 0, 0, FALSE)

\* the answer of initialize and getStatus after resetting an expired row
ResetResponse(can) ==
  [Response(200, 0, DEMO_TOKEN_LIMIT, now + TOKEN_RESET_HOURS, can)
     EXCEPT !.isReset = TRUE]

\* SELECT * FROM demo_tokens WHERE ...
Select(P(_)) == {demo_tokens[i] : i \in SelectIdx(demo_tokens, P)}

\* UNIQUE(session_token): the statement that would leave two rows with one
\* session token fails
UniqueViolation(id, token) ==
  \E i \in 1..Len(demo_tokens) :
    i # id /\ demo_tokens[i].session_token = token

\* mutant of Expired: a row is given one more window before it is reset
ExpiredAfterGrace(user) == now > user.reset_at + TOKEN_RESET_HOURS

Expired(user) == now > user.reset_at

Finish(h, res) ==
  /\ handlers' = [handlers EXCEPT ![h] =
       [IdleHandler EXCEPT !.method = handlers[h].method, !.pc = "done",
                           !.sessionToken = handlers[h].sessionToken,
                           !.tokensToConsume = handlers[h].tokensToConsume,
                           !.now = now, !.res = res]]
  /\ UNCHANGED requests

\* UPDATE demo_tokens SET tokens_used = 0, tokens_remaining = $1, reset_at = $2
ResetRow(row) ==
  [row EXCEPT !.tokens_used = 0, !.tokens_remaining = DEMO_TOKEN_LIMIT,
              !.reset_at = now + TOKEN_RESET_HOURS]

\* a request arrives at handler(): the table exists, the first query is sent
Arrive(h) ==
  /\ handlers[h].pc = "idle"
  /\ requests' = requests + 1

\* handler + handleInitializeTokens up to its SELECT
InitializeSelect(h, tab) ==
  /\ Arrive(h)
  /\ handlers' = [handlers EXCEPT ![h] =
       [IdleHandler EXCEPT
          !.method = "POST", !.pc = "selected",
          !.sessionToken = tab.sessionToken, !.cookieId = tab.cookieId,
          !.rows = Select(LAMBDA row :
                     \/ row.session_token = tab.sessionToken
                     \/ row.cookie_id = tab.cookieId)]]
  /\ UNCHANGED <<demo_tokens, now, granted>>

\* handleInitializeTokens from the SELECT's result on: rows[0] is whichever
\* matching row the database lists first
InitializeFinish(h) ==
  LET me == handlers[h] IN
  /\ me.pc = "selected"
  /\ me.method = "POST"
  /\ IF me.rows = {}
     THEN IF UniqueViolation(0, me.sessionToken)
          THEN /\ Finish(h, ErrorResponse(500))
               /\ UNCHANGED <<demo_tokens, granted>>
          ELSE LET id == Len(demo_tokens) + 1
                   row == [id |-> id, session_token |-> me.sessionToken,
                           cookie_id |-> me.cookieId, tokens_used |-> 0,
                           tokens_remaining |-> DEMO_TOKEN_LIMIT,
                           reset_at |-> now + TOKEN_RESET_HOURS]
               IN /\ demo_tokens' = Append(demo_tokens, row)
                  /\ granted' = [granted EXCEPT ![id] = 0]
                  /\ Finish(h, Response(200, row.tokens_used, row.tokens_remaining,
                                        row.reset_at, FALSE))
     ELSE \E user \in me.rows :
            IF UniqueViolation(user.id, me.sessionToken)
            THEN /\ Finish(h, ErrorResponse(500))
                 /\ UNCHANGED <<demo_tokens, granted>>
            ELSE IF Expired(user)
            THEN /\ demo_tokens' = [demo_tokens EXCEPT ![user.id] =
                      [ResetRow(@) EXCEPT !.session_token = me.sessionToken,
                                          !.cookie_id = me.cookieId]]
                 /\ granted' = [granted EXCEPT ![user.id] = 0]
                 /\ Finish(h, ResetResponse(FALSE))
            ELSE /\ demo_tokens' = [demo_tokens EXCEPT ![user.id] =
                      [@ EXCEPT !.session_token = me.sessionToken,
                                !.cookie_id = me.cookieId]]
                 /\ UNCHANGED granted
                 /\ Finish(h, Response(200, user.tokens_used, user.tokens_remaining,
                                       user.reset_at, FALSE))
  /\ UNCHANGED <<now, beyondStore>>

\* handler + handleGetTokenStatus up to its SELECT
StatusSelect(h, tab) ==
  /\ Arrive(h)
  /\ handlers' = [handlers EXCEPT ![h] =
       [IdleHandler EXCEPT
          !.method = "GET", !.pc = "selected",
          !.sessionToken = tab.sessionToken,
          !.rows = Select(LAMBDA row : row.session_token = tab.sessionToken)]]
  /\ UNCHANGED <<demo_tokens, now, granted>>

\* handleGetTokenStatus from the SELECT's result on
StatusFinish(h) ==
  LET me == handlers[h] IN
  /\ me.pc = "selected"
  /\ me.method = "GET"
  /\ IF me.rows = {}
     THEN /\ Finish(h, ErrorResponse(404))
          /\ UNCHANGED <<demo_tokens, granted>>
     ELSE LET user == CHOOSE row \in me.rows : TRUE IN
          IF Expired(user)
          THEN /\ demo_tokens' = [demo_tokens EXCEPT ![user.id] = ResetRow(@)]
               /\ granted' = [granted EXCEPT ![user.id] = 0]
               /\ Finish(h, ResetResponse(TRUE))
          ELSE /\ UNCHANGED <<demo_tokens, granted>>
               /\ Finish(h, Response(200, user.tokens_used, user.tokens_remaining,
                                     user.reset_at, user.tokens_remaining > 0))
  /\ UNCHANGED <<now, beyondStore>>

\* handler + handleConsumeTokens up to its SELECT; !tokensToConsume is a 400
ConsumeSelect(h, tab, n) ==
  /\ Arrive(h)
  /\ IF n = 0
     THEN handlers' = [handlers EXCEPT ![h] =
            [IdleHandler EXCEPT !.method = "PUT", !.pc = "done",
                                !.sessionToken = tab.sessionToken,
                                !.now = now,
                                !.res = ErrorResponse(400)]]
     ELSE handlers' = [handlers EXCEPT ![h] =
            [IdleHandler EXCEPT
               !.method = "PUT", !.pc = "selected",
               !.sessionToken = tab.sessionToken, !.tokensToConsume = n,
               !.rows = Select(LAMBDA row : row.session_token = tab.sessionToken)]]
  /\ UNCHANGED <<demo_tokens, now, granted>>

\* mutant of hasEnough: the check is dropped
hasEnoughAlways(user, n) == TRUE

\* user.tokens_remaining < tokensToConsume is the 403
hasEnough(user, n) == ~(user.tokens_remaining < n)

\* mutant of ConsumeUpdate: the consuming UPDATE leaves reset_at as it is
ConsumeUpdateFixedWindow(h, user, at) ==
  LET n == handlers[h].tokensToConsume IN
  IF ~(user.tokens_remaining >= n)
  THEN /\ Finish(h, Response(403, 0, user.tokens_remaining, 0, FALSE))
       /\ UNCHANGED <<demo_tokens, granted>>
  ELSE LET newUsed == user.tokens_used + n
           newRemaining == user.tokens_remaining - n
       IN /\ demo_tokens' = [demo_tokens EXCEPT ![user.id] =
               [@ EXCEPT !.tokens_used = newUsed,
                         !.tokens_remaining = newRemaining]]
          /\ granted' = [granted EXCEPT ![user.id] = @ + n]
          /\ Finish(h, Response(200, newUsed, newRemaining,
                                demo_tokens[user.id].reset_at, FALSE))

\* handleConsumeTokens from "Check if user has enough tokens" on; at is the
\* handler's now
\* mutant of ConsumeUpdate: the UPDATE leaves tokens_used as it is
ConsumeUpdateRemainingOnly(h, user, at) ==
  LET n == handlers[h].tokensToConsume IN
  IF ~hasEnough(user, n)
  THEN /\ Finish(h, Response(403, 0, user.tokens_remaining, 0, FALSE))
       /\ UNCHANGED <<demo_tokens, granted>>
  ELSE LET newUsed == user.tokens_used + n
           newRemaining == user.tokens_remaining - n
           newResetAt == at + TOKEN_RESET_HOURS
       IN /\ demo_tokens' = [demo_tokens EXCEPT ![user.id] =
               [@ EXCEPT !.tokens_remaining = newRemaining,
                         !.reset_at = newResetAt]]
          /\ granted' = [granted EXCEPT ![user.id] = @ + n]
          /\ Finish(h, Response(200, newUsed, newRemaining, newResetAt, FALSE))

ConsumeUpdate(h, user, at) ==
  LET n == handlers[h].tokensToConsume IN
  IF ~hasEnough(user, n)
  THEN /\ Finish(h, Response(403, 0, user.tokens_remaining, 0, FALSE))
       /\ UNCHANGED <<demo_tokens, granted>>
  ELSE LET newUsed == user.tokens_used + n
           newRemaining == user.tokens_remaining - n
           newResetAt == at + TOKEN_RESET_HOURS
       IN /\ demo_tokens' = [demo_tokens EXCEPT ![user.id] =
               [@ EXCEPT !.tokens_used = newUsed,
                         !.tokens_remaining = newRemaining,
                         !.reset_at = newResetAt]]
          /\ granted' = [granted EXCEPT ![user.id] = @ + n]
          /\ Finish(h, Response(200, newUsed, newRemaining, newResetAt, FALSE))

\* handleConsumeTokens from the SELECT's result up to the next query: the
\* reset UPDATE of an expired row, or else the consuming UPDATE
ConsumeCheck(h) ==
  LET me == handlers[h] IN
  /\ me.pc = "selected"
  /\ me.method = "PUT"
  /\ IF me.rows = {}
     THEN /\ Finish(h, ErrorResponse(404))
          /\ UNCHANGED <<demo_tokens, granted>>
     ELSE LET user == CHOOSE row \in me.rows : TRUE IN
          IF Expired(user)
          THEN /\ demo_tokens' = [demo_tokens EXCEPT ![user.id] = ResetRow(@)]
               /\ granted' = [granted EXCEPT ![user.id] = 0]
               /\ handlers' = [handlers EXCEPT
                    ![h].pc = "reset", ![h].now = now, ![h].rows = {},
                    ![h].user = [user EXCEPT !.tokens_used = 0,
                                   !.tokens_remaining = DEMO_TOKEN_LIMIT]]
               /\ UNCHANGED requests
          ELSE ConsumeUpdate(h, user, now)
  /\ UNCHANGED <<now, beyondStore>>

\* handleConsumeTokens after the reset UPDATE has returned
ConsumeAfterReset(h) ==
  /\ handlers[h].pc = "reset"
  /\ ConsumeUpdate(h, handlers[h].user, handlers[h].now)
  /\ UNCHANGED <<now, beyondStore>>

\* handler + handleResetTokens: one UPDATE ... WHERE session_token = $3
ResetTokens(h, tab) ==
  /\ Arrive(h)
  /\ demo_tokens' = [i \in 1..Len(demo_tokens) |->
       IF demo_tokens[i].session_token = tab.sessionToken
       THEN ResetRow(demo_tokens[i]) ELSE demo_tokens[i]]
  /\ granted' = [i \in DOMAIN granted |->
       IF i <= Len(demo_tokens) /\ demo_tokens[i].session_token = tab.sessionToken
       THEN 0 ELSE granted[i]]
  /\ handlers' = [handlers EXCEPT ![h] =
       [IdleHandler EXCEPT !.method = "DELETE", !.pc = "done",
                           !.sessionToken = tab.sessionToken, !.now = now,
                           !.res = Response(200, 0, DEMO_TOKEN_LIMIT,
                                            now + TOKEN_RESET_HOURS, FALSE)]]
  /\ UNCHANGED now

\* the response reaches whoever sent the request
Collect(h) ==
  /\ handlers[h].pc = "done"
  /\ ~(client.pc = "await" /\ client.h = h)
  /\ ~(llm.pc \in {"check", "consume"} /\ llm.h = h)
  /\ handlers' = [handlers EXCEPT ![h] = IdleHandler]
  /\ UNCHANGED <<demo_tokens, now, granted, requests, beyondStore>>

\* time passes
Tick ==
  /\ now < MaxTime
  /\ now' = now + 1
  /\ UNCHANGED <<demo_tokens, handlers, granted, requests, beyondStore>>

\* The store under requests sent by the tabs in any order and overlap.
NextTokenStore ==
  \/ \E h \in Handlers : \E tab \in Tabs :
       requests < MaxRequests /\ InitializeSelect(h, tab) /\ UNCHANGED beyondStore
  \/ \E h \in Handlers : InitializeFinish(h)
  \/ \E h \in Handlers : \E tab \in Tabs :
       requests < MaxRequests /\ StatusSelect(h, tab) /\ UNCHANGED beyondStore
  \/ \E h \in Handlers : StatusFinish(h)
  \/ \E h \in Handlers : \E tab \in Tabs : \E n \in StoreAmounts :
       requests < MaxRequests /\ ConsumeSelect(h, tab, n) /\ UNCHANGED beyondStore
  \/ \E h \in Handlers : ConsumeCheck(h)
  \/ \E h \in Handlers : ConsumeAfterReset(h)
  \/ \E h \in Handlers : \E tab \in Tabs :
       requests < MaxRequests /\ ResetTokens(h, tab) /\ UNCHANGED beyondStore
  \/ \E h \in Handlers : Collect(h)
  \/ Tick

\* the agent is not part of it: no goal is ever entered
AgentAbsent ==
  /\ mode = AUTOMATIC_MODE
  /\ modelSettings = CHOOSE m \in ModelSettingsChoices : m.llmProvider = ""
  /\ guestSettings = [isGuestMode |-> FALSE, isValidGuest |-> FALSE]
  /\ session = "none"
  /\ isWebSearchEnabled = FALSE
  /\ Constructed

InitTokenStore == AgentAbsent /\ OutsideInit

SpecTokenStore == InitTokenStore /\ [][NextTokenStore]_vars

\* ===================================== the token functions of the browser
\* src/utils/database.ts
\* resetAt: 24 h ahead, later than any time the clock reaches
getDefaultTokenStatus == Status(0, DEFAULT_TOKENS_REMAINING, MaxTime + 24, TRUE)

\* "Validate and normalize result"
normalize(res) ==
  Status(res.tokensUsed, res.tokensRemaining, res.resetAt, res.tokensRemaining > 0)

\* cache?.tokenStatus || getDefaultTokenStatus()
cachedOrDefault ==
  IF cache.exists /\ cache.hasStatus THEN cache.tokenStatus
  ELSE getDefaultTokenStatus

StatusResult(served, status) ==
  [served |-> served, status |-> status, success |-> TRUE, error |-> ""]

ConsumeResult(served, success, remaining, error) ==
  [served |-> served, status |-> Status(0, remaining, 0, FALSE),
   success |-> success, error |-> error]

FreeHandler == CHOOSE h \in Handlers : handlers[h].pc = "idle"

Call(fn, tab, n) ==
  [IdleClient EXCEPT !.fn = fn, !.pc = "await", !.h = FreeHandler,
                     !.sessionToken = tab.sessionToken, !.tokensToConsume = n]

Return(result) ==
  client' = [client EXCEPT !.pc = "returned", !.h = 0, !.result = result]

\* apiCall: what became of the fetch.  "answered": the response is ok and its
\* JSON is returned; "error": the response is not ok, the Error thrown for
\* it is caught and, the URL being a token URL, null is returned;
\* "unreachable": fetch rejects, null is returned the same way; "timeout":
\* the abort fires and Error('Request timed out') is thrown to the caller.
apiCall(res) == IF res.status = 200 THEN "answered" ELSE "error"

\* what initializeTokens returns, given what became of its apiCall
initializeTokensResult(served, res) ==
  IF served = "answered" THEN StatusResult(served, normalize(res))
  ELSE StatusResult(served, getDefaultTokenStatus)

\* what getTokenStatus returns, given what became of its apiCall
getTokenStatusResult(served, res) ==
  IF served = "answered" THEN StatusResult(served, normalize(res))
  ELSE StatusResult(served, cachedOrDefault)

\* what consumeTokens returns, given what became of its apiCall: the
\* Error of a timeout carries neither "403" nor "Insufficient"
consumeTokensResult(served, res) ==
  IF served = "answered"
  THEN ConsumeResult(served, TRUE, res.tokensRemaining, "")
  ELSE IF served = "timeout"
  THEN ConsumeResult(served, FALSE, 0, "Request timed out")
  ELSE ConsumeResult(served, FALSE, 0, "Token API unavailable")

Result(fn, served, res) ==
  CASE fn = "initializeTokens" -> initializeTokensResult(served, res)
    [] fn = "getTokenStatus" -> getTokenStatusResult(served, res)
    [] fn = "consumeTokens" -> consumeTokensResult(served, res)

\* the cache after a call answered by the store: initializeTokens and
\* consumeTokens write the status into an existing cache, getTokenStatus
\* also creates the cache
updateCache(fn, status) ==
  IF cache.exists
  THEN [cache EXCEPT !.hasStatus = TRUE, !.tokenStatus = status, !.lastSync = now,
                     !.statusAt = now]
  ELSE IF fn = "getTokenStatus"
  THEN [exists |-> TRUE, sessionToken |-> client.sessionToken,
        hasStatus |-> TRUE, tokenStatus |-> status, lastSync |-> now,
        statusAt |-> now]
  ELSE cache

\* a token function is called and its request reaches the store
CallTokenFunction(fn, tab, n) ==
  /\ client.pc = "idle"
  /\ \E h \in Handlers : handlers[h].pc = "idle"
  /\ CASE fn = "initializeTokens" -> InitializeSelect(FreeHandler, tab)
       [] fn = "getTokenStatus" ->
            /\ ~(/\ cache.exists /\ cache.hasStatus
                 /\ cache.sessionToken = tab.sessionToken
                 /\ now - cache.lastSync < CACHE_TTL)
            /\ StatusSelect(FreeHandler, tab)
       [] fn = "consumeTokens" -> ConsumeSelect(FreeHandler, tab, n)
  /\ client' = Call(fn, tab, n)
  /\ UNCHANGED <<cache, beyondClient>>

\* getTokenStatus answers from a cache entry less than 30 s old
GetTokenStatusCached(tab) ==
  /\ client.pc = "idle"
  /\ cache.exists /\ cache.hasStatus
  /\ cache.sessionToken = tab.sessionToken
  /\ now - cache.lastSync < CACHE_TTL
  /\ client' = [IdleClient EXCEPT !.fn = "getTokenStatus", !.pc = "returned",
                                  !.sessionToken = tab.sessionToken,
                                  !.result = StatusResult("cache", cache.tokenStatus)]
  /\ requests' = requests + 1
  /\ UNCHANGED <<cache, demo_tokens, now, handlers, granted, beyondClient>>

\* a token function is called and fetch rejects: the store is not reached
CallUnreachable(fn, tab, n) ==
  /\ client.pc = "idle"
  /\ fn = "getTokenStatus" =>
       ~(/\ cache.exists /\ cache.hasStatus
         /\ cache.sessionToken = tab.sessionToken
         /\ now - cache.lastSync < CACHE_TTL)
  /\ client' = [IdleClient EXCEPT !.fn = fn, !.pc = "returned",
                                  !.sessionToken = tab.sessionToken,
                                  !.tokensToConsume = n,
                                  !.result = Result(fn, "unreachable", NoResponse)]
  /\ requests' = requests + 1
  /\ UNCHANGED <<cache, demo_tokens, now, handlers, granted, beyondClient>>

\* the response arrives: apiCall returns or throws, the function returns
ReturnTokenFunction ==
  LET res == handlers[client.h].res
      result == Result(client.fn, apiCall(res), res)
  IN /\ client.pc = "await"
     /\ handlers[client.h].pc = "done"
     /\ Return(result)
     /\ cache' = IF result.served = "answered"
                 THEN updateCache(client.fn,
                        IF client.fn = "consumeTokens" THEN normalize(res)
                        ELSE result.status)
                 ELSE cache
     /\ handlers' = [handlers EXCEPT ![client.h] = IdleHandler]
     /\ UNCHANGED <<demo_tokens, now, granted, requests, beyondClient>>

\* the 10 s abort fires first: the request goes on in the store unattended
TimeoutTokenFunction ==
  /\ client.pc = "await"
  /\ Return(Result(client.fn, "timeout", NoResponse))
  /\ UNCHANGED <<cache, tokenStore, beyondClient>>

\* the caller has its result
ClientDone ==
  /\ client.pc = "returned"
  /\ client' = IdleClient
  /\ UNCHANGED <<cache, tokenStore, beyondClient>>

TokenFunctions == {"initializeTokens", "getTokenStatus", "consumeTokens"}

\* the tab whose calls are followed
ThisTab == CHOOSE tab \in Tabs : tab.sessionToken = "s1"

\* One tab calling the token functions one after the other, over the store;
\* requests counts its calls.
NextTokenClient ==
  \/ \E fn \in TokenFunctions : \E n \in Amounts :
       /\ fn # "consumeTokens" => n = 0
       /\ requests < MaxCalls
       /\ CallTokenFunction(fn, ThisTab, n)
  \/ requests < MaxCalls /\ GetTokenStatusCached(ThisTab)
  \/ \E fn \in TokenFunctions : \E n \in Amounts :
       /\ fn # "consumeTokens" => n = 0
       /\ requests < MaxCalls
       /\ CallUnreachable(fn, ThisTab, n)
  \/ ReturnTokenFunction
  \/ TimeoutTokenFunction
  \/ ClientDone
  \/ \E h \in Handlers : InitializeFinish(h)
  \/ \E h \in Handlers : StatusFinish(h)
  \/ \E h \in Handlers : ConsumeCheck(h)
  \/ \E h \in Handlers : ConsumeAfterReset(h)
  \/ \E h \in Handlers : Collect(h)
  \/ Tick

SpecTokenClient == InitTokenStore /\ [][NextTokenClient]_vars

\* ------------------------------------------------------ the session log
\* saveQueryResponse (src/utils/database.ts): it asks getTokenStatus first,
\* and when tokens can be used it appends the entry to the cache and sets
\* cache.lastSync; the PUT to /api/database/session that follows does not
\* touch the token status and is left out.

\* the cache entry getTokenStatus answers from
cacheIsRecent(tab) ==
  /\ cache.exists /\ cache.hasStatus
  /\ cache.sessionToken = tab.sessionToken
  /\ now - cache.lastSync < CACHE_TTL

\* "Update cache safely" of saveQueryResponse, after getTokenStatus
\* returned status
logged(c, status) ==
  IF status.canUseTokens /\ c.exists THEN [c EXCEPT !.lastSync = now] ELSE c

SaveResult(served, status) ==
  [served |-> served, status |-> status, success |-> status.canUseTokens,
   error |-> ""]

\* saveQueryResponse whose getTokenStatus answers from the cache
SaveQueryResponseCached(tab) ==
  /\ client.pc = "idle"
  /\ cacheIsRecent(tab)
  /\ cache' = logged(cache, cache.tokenStatus)
  /\ client' = [IdleClient EXCEPT !.fn = "saveQueryResponse", !.pc = "returned",
                                  !.sessionToken = tab.sessionToken,
                                  !.result = SaveResult("cache", cache.tokenStatus)]
  /\ requests' = requests + 1
  /\ UNCHANGED <<demo_tokens, now, handlers, granted, beyondClient>>

\* saveQueryResponse whose getTokenStatus sends its request to the store
SaveQueryResponseFetch(tab) ==
  /\ client.pc = "idle"
  /\ ~cacheIsRecent(tab)
  /\ \E h \in Handlers : handlers[h].pc = "idle"
  /\ StatusSelect(FreeHandler, tab)
  /\ client' = Call("saveQueryResponse", tab, 0)
  /\ UNCHANGED <<cache, beyondClient>>

\* the store's answer arrives: getTokenStatus returns and saveQueryResponse
\* goes on in the same stretch
SaveQueryResponseReturn ==
  LET res == handlers[client.h].res
      got == getTokenStatusResult(apiCall(res), res)
      synced == IF got.served = "answered"
                THEN updateCache("getTokenStatus", got.status) ELSE cache
  IN /\ client.pc = "await"
     /\ client.fn = "saveQueryResponse"
     /\ handlers[client.h].pc = "done"
     /\ Return(SaveResult(got.served, got.status))
     /\ cache' = logged(synced, got.status)
     /\ handlers' = [handlers EXCEPT ![client.h] = IdleHandler]
     /\ UNCHANGED <<demo_tokens, now, granted, requests, beyondClient>>

\* the calls of the tab on the session log beside its token functions
NextSessionLog ==
  \/ \E fn \in TokenFunctions : \E n \in Amounts :
       /\ fn # "consumeTokens" => n = 0
       /\ requests < MaxCalls
       /\ CallTokenFunction(fn, ThisTab, n)
  \/ requests < MaxCalls /\ GetTokenStatusCached(ThisTab)
  \/ requests < MaxCalls /\ SaveQueryResponseCached(ThisTab)
  \/ requests < MaxCalls /\ SaveQueryResponseFetch(ThisTab)
  \/ client.fn # "saveQueryResponse" /\ ReturnTokenFunction
  \/ client.fn # "saveQueryResponse" /\ TimeoutTokenFunction
  \/ SaveQueryResponseReturn
  \/ ClientDone
  \/ \E h \in Handlers : InitializeFinish(h)
  \/ \E h \in Handlers : StatusFinish(h)
  \/ \E h \in Handlers : ConsumeCheck(h)
  \/ \E h \in Handlers : ConsumeAfterReset(h)
  \/ \E h \in Handlers : Collect(h)
  \/ Tick

SpecSessionLog == InitTokenStore /\ [][NextSessionLog]_vars


\* ======================================================= the LLM client
\* src/services/agent-service.ts, class MultiProviderLLM and the agent
\* functions built on it
Attempts == {"streaming", "fallback"}

Sessions == {"", "s1"}

\* no key, a key of blanks, a key
ApiKeys == {"", " ", "key"}

PromptLengths == {4, MaxPromptLength}

ResponseLengths == {MaxResponseLength}

DemoTokenLimitReached == "Demo token limit reached. Please wait for reset or use your own API key."
InsufficientDemoTokens == "Insufficient demo tokens."
TokenCheckFailed == "Token check failed: status"
NoApiKeyConfigured == "No API key configured for provider"
ProviderError == "provider API error"

\* Math.ceil(text.length / 4)
estimateTokens(length) == (length + 3) \div 4

\* mutant of rethrown: the catch lets nothing through
rethrownNever(message) == FALSE

\* the catch of checkTokensBeforeRequest throws on what it caught when the
\* message includes 'token', 'Demo token limit' or 'Insufficient demo
\* tokens'; "Token check failed: ..." has a capital T and is let pass
rethrown(message) == message \in {DemoTokenLimitReached, InsufficientDemoTokens}

\* startGoalAgent, analyzeTaskAgent, executeTaskAgent and createTasksAgent
\* wrap llm.call in try/catch and return a stand-in for whatever it threw
AgentFunctionResult(error) ==
  [raised |-> FALSE,
   value |-> IF error = "none" THEN "completion" ELSE "stand-in"]

\* getMessageFromError of the orchestrator that passes its session token to
\* the agent functions, for an Error that is not an axios error
getMessageFromErrorMessage(error) ==
  CASE error = DemoTokenLimitReached -> "demo token limit reached"
    [] error \in {InsufficientDemoTokens} -> "insufficient tokens remaining"
    [] OTHER -> "Error: message"

\* what the orchestrator sends to the sink for the result of an agent
\* function: sendErrorMessage(getMessageFromError(e)) in its catch
SinkMessage(result, error) ==
  IF result.raised THEN getMessageFromErrorMessage(error) ELSE "none"

\* llm.call returns or throws: the agent function hands its result on
CallEnds(l, error) ==
  LET result == AgentFunctionResult(error) IN
  [l EXCEPT !.pc = "returned", !.error = error, !.h = 0, !.tries = 0,
            !.returned = result.value,
            !.message = SinkMessage(result, error)]

\* an attempt throws: call() catches what callStreaming threw and starts
\* callNonStreaming; what callNonStreaming throws leaves call()
Throw(l, error) ==
  IF l.attempt = "streaming"
  THEN [l EXCEPT !.attempt = "fallback", !.pc = "begin", !.tries = 0, !.h = 0]
  ELSE CallEnds(l, error)

\* callStreaming and callNonStreaming after "await checkTokensBeforeRequest":
\* the key check, then the request to the provider
AfterCheck(l) ==
  LET missing == IF l.attempt = "streaming" THEN l.apiKey \in {"", " "}
                 ELSE l.apiKey = ""
  IN IF missing THEN Throw(l, NoApiKeyConfigured)
     ELSE [l EXCEPT !.pc = "provider", !.tries = 0, !.h = 0,
                    !.sent[l.attempt] = TRUE]

\* checkTokensBeforeRequest from the status on
Checked(l, res) ==
  LET estimatedTokens == estimateTokens(l.promptLength)
      thrown == IF ~res.canUseTokens THEN DemoTokenLimitReached
                ELSE IF res.tokensRemaining < estimatedTokens
                THEN InsufficientDemoTokens ELSE "none"
      found == IF ~res.canUseTokens THEN "exhausted"
               ELSE IF res.tokensRemaining < estimatedTokens
               THEN "insufficient" ELSE "passed"
      seen == [l EXCEPT !.report[l.attempt] = found]
  IN IF thrown # "none" /\ rethrown(thrown) THEN Throw(seen, thrown)
     ELSE AfterCheck(seen)

TabOf(sessionToken) == CHOOSE tab \in Tabs : tab.sessionToken = sessionToken

\* an agent function is called and calls llm.call
LLMCall(sessionToken, apiKey, length) ==
  /\ llm.pc = "idle"
  /\ llm.calls < MaxLLMCalls
  /\ llm' = [IdleLLM EXCEPT !.pc = "begin", !.attempt = "streaming",
                            !.sessionToken = sessionToken,
                            !.apiKey = apiKey, !.promptLength = length,
                            !.calls = llm.calls + 1]
  /\ UNCHANGED <<tokenStore, beyondLLM>>

\* checkTokensBeforeRequest up to its fetch: without a session token it
\* returns at once, else the GET goes out
CheckTokensBeforeRequest ==
  /\ llm.pc = "begin"
  /\ IF llm.sessionToken = ""
     THEN /\ llm' = AfterCheck([llm EXCEPT !.report[llm.attempt] = "skipped"])
          /\ UNCHANGED tokenStore
     ELSE /\ \E h \in Handlers : handlers[h].pc = "idle"
          /\ StatusSelect(FreeHandler, TabOf(llm.sessionToken))
          /\ llm' = [llm EXCEPT !.pc = "check", !.h = FreeHandler,
                                !.gateRequests = @ + 1]
  /\ UNCHANGED beyondLLM

\* the GET is answered: not ok is thrown inside retryWithBackoff, which
\* tries twice and then throws "Token check failed", which the catch drops
CheckAnswered ==
  LET res == handlers[llm.h].res IN
  /\ llm.pc = "check"
  /\ handlers[llm.h].pc = "done"
  /\ llm' = IF res.status = 200 THEN Checked(llm, res)
            ELSE IF llm.tries = 0
            THEN [llm EXCEPT !.pc = "begin", !.tries = 1, !.h = 0]
            ELSE IF rethrown(TokenCheckFailed) THEN Throw(llm, TokenCheckFailed)
            ELSE AfterCheck([llm EXCEPT !.report[llm.attempt] = "failed"])
  /\ handlers' = [handlers EXCEPT ![llm.h] = IdleHandler]
  /\ UNCHANGED <<demo_tokens, now, granted, requests, beyondLLM>>

\* the provider answers: callNonStreaming returns the completion,
\* callStreaming goes on to consumeTokensAfterResponse
ProviderAnswers(length) ==
  /\ llm.pc = "provider"
  /\ llm' = IF llm.attempt = "streaming" /\ llm.sessionToken # ""
            THEN [llm EXCEPT !.pc = "responded", !.responseLength = length]
            ELSE CallEnds([llm EXCEPT !.responseLength = length], "none")
  /\ UNCHANGED <<tokenStore, beyondLLM>>

\* the provider's request fails
ProviderFails ==
  /\ llm.pc = "provider"
  /\ llm' = Throw(llm, ProviderError)
  /\ UNCHANGED <<tokenStore, beyondLLM>>

\* consumeTokensAfterResponse up to its fetch: the PUT goes out
ConsumeTokensAfterResponse ==
  /\ llm.pc = "responded"
  /\ \E h \in Handlers : handlers[h].pc = "idle"
  /\ ConsumeSelect(FreeHandler, TabOf(llm.sessionToken),
                   estimateTokens(llm.promptLength + llm.responseLength))
  /\ llm' = [llm EXCEPT !.pc = "consume", !.h = FreeHandler,
                        !.gateRequests = @ + 1]
  /\ UNCHANGED beyondLLM

\* the PUT is answered: not ok is tried once more, then logged and dropped
ConsumeAnswered ==
  LET res == handlers[llm.h].res IN
  /\ llm.pc = "consume"
  /\ handlers[llm.h].pc = "done"
  /\ llm' = IF res.status # 200 /\ llm.tries = 0
            THEN [llm EXCEPT !.pc = "responded", !.tries = 1, !.h = 0]
            ELSE CallEnds([llm EXCEPT !.charged =
                             IF res.status = 200 THEN @ + 1 ELSE @], "none")
  /\ handlers' = [handlers EXCEPT ![llm.h] = IdleHandler]
  /\ UNCHANGED <<demo_tokens, now, granted, requests, beyondLLM>>

\* the orchestrator has the agent function's result
LLMDone ==
  /\ llm.pc = "returned"
  /\ llm' = [IdleLLM EXCEPT !.calls = llm.calls]
  /\ UNCHANGED <<tokenStore, beyondLLM>>

\* Calls of the LLM client for session s1 or without a session, over the
\* store, while the tab of s1 initializes and consumes.
NextLLM ==
  \/ \E sessionToken \in Sessions : \E apiKey \in ApiKeys :
       \E length \in PromptLengths : LLMCall(sessionToken, apiKey, length)
  \/ CheckTokensBeforeRequest
  \/ CheckAnswered
  \/ \E length \in ResponseLengths : ProviderAnswers(length)
  \/ ProviderFails
  \/ ConsumeTokensAfterResponse
  \/ ConsumeAnswered
  \/ LLMDone
  \/ \E h \in Handlers :
       requests < MaxRequests /\ InitializeSelect(h, ThisTab) /\ UNCHANGED beyondStore
  \/ \E h \in Handlers : \E n \in 1..MaxAmount :
       requests < MaxRequests /\ ConsumeSelect(h, ThisTab, n) /\ UNCHANGED beyondStore
  \/ \E h \in Handlers : InitializeFinish(h)
  \/ \E h \in Handlers : StatusFinish(h)
  \/ \E h \in Handlers : ConsumeCheck(h)
  \/ \E h \in Handlers : ConsumeAfterReset(h)
  \/ \E h \in Handlers : Collect(h)
  \/ Tick

SpecLLM == InitTokenStore /\ [][NextLLM]_vars

\* ------------------------------------------- behind a server route
\* src/pages/api/agent/start.ts (and its siblings for the other agent
\* functions): pull() awaits the agent function, which calls llm.call with
\* the session token of the request, and then consumeTokensForResponse.
RoutePromptLengths == {1}

\* consumeTokensForResponse up to its fetch: estimateTokens(prompt +
\* response) of the route's own prompt and of the result, the PUT goes out
RouteConsume(n) ==
  /\ llm.pc = "returned"
  /\ llm.sessionToken # ""
  /\ \E h \in Handlers : handlers[h].pc = "idle"
  /\ ConsumeSelect(FreeHandler, TabOf(llm.sessionToken), n)
  /\ llm' = [llm EXCEPT !.pc = "charging", !.h = FreeHandler,
                        !.gateRequests = @ + 1]
  /\ UNCHANGED beyondLLM

\* the fetch of consumeTokensForResponse throws: the catch logs it
RouteConsumeThrows ==
  /\ llm.pc = "returned"
  /\ llm.sessionToken # ""
  /\ llm' = [llm EXCEPT !.pc = "charged"]
  /\ UNCHANGED <<tokenStore, beyondLLM>>

\* the PUT is answered: ok or not is logged, nothing is tried again
RouteConsumeAnswered ==
  LET res == handlers[llm.h].res IN
  /\ llm.pc = "charging"
  /\ handlers[llm.h].pc = "done"
  /\ llm' = [llm EXCEPT !.pc = "charged", !.h = 0,
                        !.charged = IF res.status = 200 THEN @ + 1 ELSE @]
  /\ handlers' = [handlers EXCEPT ![llm.h] = IdleHandler]
  /\ UNCHANGED <<demo_tokens, now, granted, requests, beyondLLM>>

\* pull() enqueues the result and closes the stream
RouteDone ==
  /\ \/ llm.pc = "charged"
     \/ llm.pc = "returned" /\ llm.sessionToken = ""
  /\ llm' = [IdleLLM EXCEPT !.calls = llm.calls]
  /\ UNCHANGED <<tokenStore, beyondLLM>>

\* Requests to a route for session s1 or without a session, over the
\* store, while the tab of s1 initializes its row.
NextRoute ==
  \/ \E sessionToken \in Sessions : \E apiKey \in ApiKeys :
       \E length \in RoutePromptLengths : LLMCall(sessionToken, apiKey, length)
  \/ CheckTokensBeforeRequest
  \/ CheckAnswered
  \/ \E length \in ResponseLengths : ProviderAnswers(length)
  \/ ProviderFails
  \/ ConsumeTokensAfterResponse
  \/ ConsumeAnswered
  \/ \E n \in 1..MaxAmount : RouteConsume(n)
  \/ RouteConsumeThrows
  \/ RouteConsumeAnswered
  \/ RouteDone
  \/ \E h \in Handlers :
       requests < MaxRequests /\ InitializeSelect(h, ThisTab) /\ UNCHANGED beyondStore
  \/ \E h \in Handlers : InitializeFinish(h)
  \/ \E h \in Handlers : StatusFinish(h)
  \/ \E h \in Handlers : ConsumeCheck(h)
  \/ \E h \in Handlers : ConsumeAfterReset(h)
  \/ \E h \in Handlers : Collect(h)
  \/ Tick

SpecRoute == InitTokenStore /\ [][NextRoute]_vars

\* ================================================ the rate limiter
\* src/server/redis.ts and the middleware of the agent routes.  The map is
\* a sequence of [key, count, windowStart] entries, one per key.
ClientIds == {"10.0.0.1", "127.0.0.1"}

\* const windowMs = 60000 of cleanupExpiredEntries, and windowMinutes * 60 *
\* 1000 for the one minute isAllowed passes
windowMs == CLEANUP_INTERVAL

mapGet(map, id) == SelectSeq(map, LAMBDA e : e.key = id)

mapSet(map, id, count, windowStart) ==
  SelectSeq(map, LAMBDA e : e.key # id)
    \o << [key |-> id, count |-> count, windowStart |-> windowStart] >>

cleanupExpiredEntries(l) ==
  IF l.now - l.lastCleanup < CLEANUP_INTERVAL THEN l
  ELSE [l EXCEPT !.rateLimitMap =
                   SelectSeq(@, LAMBDA e : ~(e.windowStart < l.now - windowMs)),
                 !.lastCleanup = l.now]

\* checkRateLimit after its cleanup: the decision and the map it leaves
checkRateLimit(l, id, limit) ==
  LET windowStart == l.now - windowMs
      existing == mapGet(l.rateLimitMap, id)
  IN IF existing = <<>> \/ existing[1].windowStart < windowStart
     THEN [allowed |-> TRUE, map |-> mapSet(l.rateLimitMap, id, 1, l.now)]
     ELSE IF existing[1].count >= limit
     THEN [allowed |-> FALSE, map |-> l.rateLimitMap]
     ELSE [allowed |-> TRUE,
           map |-> mapSet(l.rateLimitMap, id, existing[1].count + 1,
                          existing[1].windowStart)]

isAllowed(l, id) == checkRateLimit(cleanupExpiredEntries(l), id, REQUESTS_PER_MINUTE)

\* middleware(request) for a request of client id: 429 when shouldRateLimit,
\* else the request goes on to its route
Middleware(id) ==
  /\ Len(limiter.served) < MaxServed
  /\ LET cleaned == cleanupExpiredEntries(limiter)
         decided == isAllowed(limiter, id)
     IN limiter' = [cleaned EXCEPT
                      !.rateLimitMap = decided.map,
                      !.served = Append(@, [id |-> id, at |-> limiter.now,
                                            status |-> IF decided.allowed THEN 200
                                                       ELSE 429])]
  /\ UNCHANGED beyondLimiter

\* the limiter's clock advances
LimiterTick ==
  /\ limiter.now < MaxClock
  /\ limiter' = [limiter EXCEPT !.now = @ + 1]
  /\ UNCHANGED beyondLimiter

NextLimiter ==
  \/ \E id \in ClientIds : Middleware(id)
  \/ LimiterTick

SpecLimiter == InitTokenStore /\ [][NextLimiter]_vars

\* ================================================ the task extractor
\* src/utils/helpers.ts.  A string is the sequence of its characters.
Uppers == <<"A", "B", "C", "D", "E", "F", "G", "H", "I", "J", "K", "L", "M", "N", "O", "P", "Q", "R", "S", "T", "U", "V", "W", "X", "Y", "Z">>

Lowers == <<"a", "b", "c", "d", "e", "f", "g", "h", "i", "j", "k", "l", "m", "n", "o", "p", "q", "r", "s", "t", "u", "v", "w", "x", "y", "z">>

Digits == {"0", "1", "2", "3", "4", "5", "6", "7", "8", "9"}

\* \s, of which the strings explored hold the blank and the line feed
isSpace(c) == c \in {" ", "\n"}

isDigit(c) == c \in Digits

lowerOf(c) ==
  IF \E i \in 1..26 : Uppers[i] = c
  THEN Lowers[CHOOSE i \in 1..26 : Uppers[i] = c]
  ELSE c

toLowerCase(s) == [i \in 1..Len(s) |-> lowerOf(s[i])]

RECURSIVE skipSpaces(_, _)
\* \s* from position i: the first position it does not take
skipSpaces(s, i) ==
  IF i <= Len(s) /\ isSpace(s[i]) THEN skipSpaces(s, i + 1) ELSE i

RECURSIVE skipDigits(_, _)
\* \d* from position i
skipDigits(s, i) ==
  IF i <= Len(s) /\ isDigit(s[i]) THEN skipDigits(s, i + 1) ELSE i

\* [-:]? from position i
skipDashOrColon(s, i) ==
  IF i <= Len(s) /\ s[i] \in {"-", ":"} THEN i + 1 ELSE i

\* ^Task under the flag i
startsWithTask(s) ==
  Len(s) >= 4 /\ toLowerCase(SubSeq(s, 1, 4)) = <<"t", "a", "s", "k">>

\* The three alternatives of prefixPattern, each giving the first position
\* after its match, or 0 when it does not match.  The classes that follow
\* one another are disjoint, so the greedy match is the only match.
\* Task\s*\d*\.\s*
taskDot(s) ==
  IF ~startsWithTask(s) THEN 0
  ELSE LET i == skipDigits(s, skipSpaces(s, 5))
       IN IF i <= Len(s) /\ s[i] = "." THEN skipSpaces(s, i + 1) ELSE 0

\* Task\s*\d*[-:]?\s*
taskDash(s) ==
  IF ~startsWithTask(s) THEN 0
  ELSE skipSpaces(s, skipDashOrColon(s, skipDigits(s, skipSpaces(s, 5))))

\* -?\d+\s*[-:]?\s*
numberDash(s) ==
  LET i == IF Len(s) >= 1 /\ s[1] = "-" THEN 2 ELSE 1
  IN IF i <= Len(s) /\ isDigit(s[i])
     THEN skipSpaces(s, skipDashOrColon(s, skipSpaces(s, skipDigits(s, i))))
     ELSE 0

\* the first alternative that matches is the match
prefixPattern(s) ==
  IF taskDot(s) # 0 THEN taskDot(s)
  ELSE IF taskDash(s) # 0 THEN taskDash(s)
  ELSE numberDash(s)

\* input.replace(prefixPattern, "")
removeTaskPrefix(input) ==
  IF prefixPattern(input) = 0 THEN input
  ELSE SubSeq(input, prefixPattern(input), Len(input))

RECURSIVE lastNonSpace(_, _)
\* the last position up to i that holds no white space, or 0
lastNonSpace(s, i) ==
  IF i >= 1 /\ isSpace(s[i]) THEN lastNonSpace(s, i - 1) ELSE i

trim(s) == SubSeq(s, skipSpaces(s, 1), lastNonSpace(s, Len(s)))

\* s.includes(w), for a w that is not empty
Includes(s, w) ==
  \E i \in 1..(Len(s) - Len(w) + 1) : SubSeq(s, i, i + Len(w) - 1) = w

StartsWith(s, w) == Len(s) >= Len(w) /\ SubSeq(s, 1, Len(w)) = w

\* list.includes(x)
Has(list, x) == \E i \in 1..Len(list) : list[i] = x

RECURSIVE escape(_)
\* what JSON.stringify writes between the quotes
escape(s) ==
  IF s = <<>> THEN <<>>
  ELSE (CASE Head(s) = "\"" -> <<"\\", "\"">>
          [] Head(s) = "\\" -> <<"\\", "\\">>
          [] Head(s) = "\n" -> <<"\\", "n">>
          [] OTHER -> <<Head(s)>>) \o escape(Tail(s))

RECURSIVE unescape(_)
\* what JSON.parse reads between the quotes
unescape(s) ==
  IF s = <<>> THEN <<>>
  ELSE IF Head(s) = "\\" /\ Len(s) >= 2
       THEN <<(IF s[2] = "n" THEN "\n" ELSE s[2])>> \o unescape(Tail(Tail(s)))
       ELSE <<Head(s)>> \o unescape(Tail(s))

RECURSIVE joinQuoted(_)
joinQuoted(list) ==
  IF list = <<>> THEN <<>>
  ELSE <<"\"">> \o escape(Head(list)) \o <<"\"">>
       \o (IF Len(list) > 1 THEN <<",">> ELSE <<>>) \o joinQuoted(Tail(list))

\* JSON.stringify of a list of strings
JSONstringify(list) == <<"[">> \o joinQuoted(list) \o <<"]">>

RECURSIVE nextQuote(_, _)
\* the position of the first double quote from i on, or 0
nextQuote(s, i) ==
  IF i > Len(s) THEN 0
  ELSE IF s[i] = "\"" THEN i ELSE nextQuote(s, i + 1)

\* "[^"]*" at position i: the position after the closing quote, or 0
quotedEnd(s, i) ==
  IF i <= Len(s) /\ s[i] = "\"" /\ nextQuote(s, i + 1) # 0
  THEN nextQuote(s, i + 1) + 1
  ELSE 0

RECURSIVE itemsEnd(_, _)
\* \s*(?:,\s*"[^"]*"\s*)*\] from position i, after a quoted string
itemsEnd(s, i) ==
  LET m == skipSpaces(s, i) IN
  IF m > Len(s) THEN 0
  ELSE IF s[m] = "]" THEN m + 1
  ELSE IF s[m] = "," /\ quotedEnd(s, skipSpaces(s, m + 1)) # 0
       THEN itemsEnd(s, quotedEnd(s, skipSpaces(s, m + 1)))
       ELSE 0

\* the first strategy of extractArray, a JSON array of double-quoted
\* strings, at position i: the position after its match, or 0
arrayEnd(s, i) ==
  IF i <= Len(s) /\ s[i] = "[" /\ quotedEnd(s, skipSpaces(s, i + 1)) # 0
  THEN itemsEnd(s, quotedEnd(s, skipSpaces(s, i + 1)))
  ELSE 0

\* mutant of JSONparse: only the first string is read
JSONparseFirstOnly(s, i) ==
  LET q == nextQuote(s, i) IN
  IF q = 0 THEN <<>>
  ELSE <<unescape(SubSeq(s, q + 1, nextQuote(s, q + 1) - 1))>>

RECURSIVE JSONparse(_, _)
\* JSON.parse of a match of the first strategy that starts before position
\* i: the strings between its quotes
JSONparse(s, i) ==
  LET q == nextQuote(s, i) IN
  IF q = 0 THEN <<>>
  ELSE <<unescape(SubSeq(s, q + 1, nextQuote(s, q + 1) - 1))>>
       \o JSONparse(s, nextQuote(s, q + 1) + 1)

\* parsed.filter(item => typeof item === 'string' && item.trim().length > 0)
validTasks(parsed) == SelectSeq(parsed, LAMBDA item : Len(trim(item)) > 0)

RECURSIVE firstArray(_, _)
\* the matches of the first strategy from position i on, in order: the
\* valid tasks of the first match that has any, or <<>>
firstArray(s, i) ==
  IF i > Len(s) THEN <<>>
  ELSE IF arrayEnd(s, i) = 0 THEN firstArray(s, i + 1)
  ELSE LET found == validTasks(JSONparse(SubSeq(s, i, arrayEnd(s, i) - 1), 1))
       IN IF found # <<>> THEN found ELSE firstArray(s, arrayEnd(s, i))


RECURSIVE indexOf(_, _, _)
\* the first position from i on at which w occurs in s, or 0
indexOf(s, w, i) ==
  IF i + Len(w) - 1 > Len(s) THEN 0
  ELSE IF SubSeq(s, i, i + Len(w) - 1) = w THEN i
  ELSE indexOf(s, w, i + 1)

RECURSIVE split(_, _)
\* s.split(d)
split(s, d) ==
  LET i == indexOf(s, d, 1) IN
  IF i = 0 THEN <<s>>
  ELSE <<SubSeq(s, 1, i - 1)>> \o split(SubSeq(s, i + Len(d), Len(s)), d)

RECURSIVE trimAll(_)
\* list.map(s => s.trim())
trimAll(list) ==
  IF list = <<>> THEN <<>> ELSE <<trim(Head(list))>> \o trimAll(Tail(list))

\* "Skip obvious non-task lines"
skippedLine(line) ==
  \/ Includes(line, <<"g", "o", "a", "l">>)
  \/ Includes(line, <<"o", "b", "j", "e", "c", "t", "i", "v", "e">>)
  \/ Includes(line, <<"N", "o", "t", "e", ":">>)
  \/ Includes(line, <<"H", "e", "r", "e">>)
  \/ Len(line) < 10
  \/ Includes(toLowerCase(line), <<"a", "r", "r", "a", "y">>)
  \/ Includes(toLowerCase(line), <<"f", "o", "r", "m", "a", "t">>)

\* taskPatterns: what (.+) captures in a trimmed line when the pattern
\* matches with more than its last character left, and <<>> otherwise (a
\* match that leaves (.+) one character is too short to be kept)
\* ^\d+\.\s*(.+)$
numberedCapture(line) ==
  LET i == skipDigits(line, 1) IN
  IF i > 1 /\ i <= Len(line) /\ line[i] = "."
  THEN SubSeq(line, skipSpaces(line, i + 1), Len(line))
  ELSE <<>>

\* ^-\s*(.+)$ and ^\*\s*(.+)$
bulletCapture(line, bullet) ==
  IF Len(line) >= 1 /\ line[1] = bullet
  THEN SubSeq(line, skipSpaces(line, 2), Len(line))
  ELSE <<>>

\* ^Task\s*\d*:?\s*(.+)$ under the flag i, and the same for Step and Action
wordCapture(line, word) ==
  IF StartsWith(toLowerCase(line), word)
  THEN LET i == skipDigits(line, skipSpaces(line, Len(word) + 1))
           j == IF i <= Len(line) /\ line[i] = ":" THEN i + 1 ELSE i
       IN SubSeq(line, skipSpaces(line, j), Len(line))
  ELSE <<>>

taskPatterns(line) ==
  << numberedCapture(line), bulletCapture(line, "-"), bulletCapture(line, "*"),
     wordCapture(line, <<"t", "a", "s", "k">>), wordCapture(line, <<"s", "t", "e", "p">>),
     wordCapture(line, <<"a", "c", "t", "i", "o", "n">>) >>

keptCapture(capture) == Len(trim(capture)) > 5 /\ Len(trim(capture)) < 200

\* the task a line gives, as a list of one, or <<>>
lineTask(line) ==
  LET captures == taskPatterns(line)
      hits == {k \in 1..Len(captures) : keptCapture(captures[k])}
  IN IF skippedLine(line) THEN <<>>
     ELSE IF hits # {}
          THEN <<trim(captures[CHOOSE k \in hits : \A m \in hits : k <= m])>>
     ELSE IF /\ Len(line) > 15 /\ Len(line) < 200
             /\ Includes(line, <<" ">>)
             /\ ~Includes(line, <<"[">>) /\ ~Includes(line, <<"{">>)
          THEN <<line>>
     ELSE <<>>

RECURSIVE lineTasks(_)
lineTasks(lines) ==
  IF lines = <<>> THEN <<>> ELSE lineTask(Head(lines)) \o lineTasks(Tail(lines))

delimiters == << <<".", " ">>, <<",", " ">>, <<";", " ">>, <<" ", "a", "n", "d", " ">>, <<" ", "t", "h", "e", "n", " ">> >>

\* text.split(delimiter), trimmed and filtered
splitTasks(text, delimiter) ==
  SelectSeq(trimAll(split(text, delimiter)),
            LAMBDA x : /\ Len(x) > 10 /\ Len(x) < 200
                       /\ ~Includes(x, <<"[">>) /\ ~Includes(x, <<"{">>))

\* "If we still have no tasks, split by common delimiters"
delimitedTasks(text) ==
  LET hits == {k \in 1..Len(delimiters) :
                 /\ Includes(text, delimiters[k])
                 /\ splitTasks(text, delimiters[k]) # <<>>}
  IN IF hits = {} THEN <<>>
     ELSE splitTasks(text, delimiters[CHOOSE k \in hits : \A m \in hits : k <= m])

\* tasks.slice(0, n)
slice(list, n) == SubSeq(list, 1, IF Len(list) < n THEN Len(list) ELSE n)

extractTasksFromPlainText(text) ==
  LET lines == SelectSeq(trimAll(split(text, <<"\n">>)), LAMBDA line : Len(line) > 0)
      found == lineTasks(lines)
  IN slice(IF found = <<>> THEN delimitedTasks(text) ELSE found, 5)

\* The strings explored hold no single quote and no backslash, and no array
\* in them lacks a comma or ends in one, so the later strategies match what
\* the first one matches and JSON.parse accepts every match.
extractArray(inputStr) ==
  LET cleanedStr == trim(inputStr) IN
  IF cleanedStr = <<"[", "]">> THEN <<>>
  ELSE IF firstArray(cleanedStr, 1) # <<>> THEN firstArray(cleanedStr, 1)
  ELSE extractTasksFromPlainText(cleanedStr)


\* ---------------------------------------------------- realTasksFilter
\* The thirteen noTaskPatterns, tested on the trimmed lower-case input.
\* ^no( (new|further|additional|extra|other))? tasks? (is )?(required|...)
noTasksRequired(s) ==
  \E a \in {<<>>} \cup { <<" ", "n", "e", "w">>,
                      <<" ", "f", "u", "r", "t", "h", "e", "r">>,
                      <<" ", "a", "d", "d", "i", "t", "i", "o", "n", "a", "l">>,
                      <<" ", "e", "x", "t", "r", "a">>,
                      <<" ", "o", "t", "h", "e", "r">> } :
    \E b \in {<<>>, <<"s">>} : \E c \in {<<>>, <<"i", "s", " ">>} :
      \E d \in { <<"r", "e", "q", "u", "i", "r", "e", "d">>,
               <<"n", "e", "e", "d", "e", "d">>, <<"a", "d", "d", "e", "d">>,
               <<"c", "r", "e", "a", "t", "e", "d">>,
               <<"i", "n", "p", "u", "t", "t", "e", "d">> } :
        StartsWith(s, <<"n", "o">> \o a \o <<" ", "t", "a", "s", "k">> \o b \o <<" ">> \o c \o d)

\* ^task (complete|completed|finished|done|over|success)
taskComplete(s) ==
  \E d \in { <<"c", "o", "m", "p", "l", "e", "t", "e">>,
           <<"c", "o", "m", "p", "l", "e", "t", "e", "d">>,
           <<"f", "i", "n", "i", "s", "h", "e", "d">>, <<"d", "o", "n", "e">>,
           <<"o", "v", "e", "r">>, <<"s", "u", "c", "c", "e", "s", "s">> } :
    StartsWith(s, <<"t", "a", "s", "k", " ">> \o d)

\* ^(\s*|do nothing(\s.*)?)$
doNothing(s) ==
  \/ trim(s) = <<>>
  \/ s = <<"d", "o", " ", "n", "o", "t", "h", "i", "n", "g">>
  \/ /\ StartsWith(s, <<"d", "o", " ", "n", "o", "t", "h", "i", "n", "g">>)
     /\ Len(s) > 10
     /\ isSpace(s[11])
     /\ ~Includes(SubSeq(s, 12, Len(s)), <<"\n">>)

\* ^(none|n\/a|not applicable|skip|pass)$
noneOrSkip(s) == s \in { <<"n", "o", "n", "e">>, <<"n", "/", "a">>,
                       <<"n", "o", "t", " ", "a", "p", "p", "l", "i", "c", "a", "b", "l", "e">>,
                       <<"s", "k", "i", "p">>, <<"p", "a", "s", "s">> }

\* ^(goal|objective|target|aim):
goalLabel(s) ==
  \E w \in { <<"g", "o", "a", "l", ":">>,
           <<"o", "b", "j", "e", "c", "t", "i", "v", "e", ":">>,
           <<"t", "a", "r", "g", "e", "t", ":">>, <<"a", "i", "m", ":">> } : StartsWith(s, w)

\* ^(note|info|information):
noteLabel(s) ==
  \E w \in { <<"n", "o", "t", "e", ":">>, <<"i", "n", "f", "o", ":">>,
           <<"i", "n", "f", "o", "r", "m", "a", "t", "i", "o", "n", ":">> } : StartsWith(s, w)

\* ^(here|this|these) (is|are)
hereIs(s) ==
  \E w \in { <<"h", "e", "r", "e", " ", "i", "s">>,
           <<"h", "e", "r", "e", " ", "a", "r", "e">>,
           <<"t", "h", "i", "s", " ", "i", "s">>,
           <<"t", "h", "i", "s", " ", "a", "r", "e">>,
           <<"t", "h", "e", "s", "e", " ", "i", "s">>,
           <<"t", "h", "e", "s", "e", " ", "a", "r", "e">> } :
    StartsWith(s, w)

\* ^(the goal|the objective)
theGoal(s) ==
  \E w \in { <<"t", "h", "e", " ", "g", "o", "a", "l">>,
           <<"t", "h", "e", " ", "o", "b", "j", "e", "c", "t", "i", "v", "e">> } : StartsWith(s, w)

\* ^(empty|null|undefined)$
emptyOrNull(s) == s \in { <<"e", "m", "p", "t", "y">>, <<"n", "u", "l", "l">>,
                       <<"u", "n", "d", "e", "f", "i", "n", "e", "d">> }

\* ^(no tasks?|nothing|no action)$
noTasks(s) == s \in { <<"n", "o", " ", "t", "a", "s", "k">>,
                   <<"n", "o", " ", "t", "a", "s", "k", "s">>,
                   <<"n", "o", "t", "h", "i", "n", "g">>,
                   <<"n", "o", " ", "a", "c", "t", "i", "o", "n">> }

\* ^task creation (complete|completed|finished)
taskCreationComplete(s) ==
  \E d \in { <<"c", "o", "m", "p", "l", "e", "t", "e">>,
           <<"c", "o", "m", "p", "l", "e", "t", "e", "d">>,
           <<"f", "i", "n", "i", "s", "h", "e", "d">> } :
    StartsWith(s, <<"t", "a", "s", "k", " ", "c", "r", "e", "a", "t", "i", "o", "n", " ">> \o d)

\* ^goal (achieved|reached|completed)
goalAchieved(s) ==
  \E d \in { <<"a", "c", "h", "i", "e", "v", "e", "d">>,
           <<"r", "e", "a", "c", "h", "e", "d">>,
           <<"c", "o", "m", "p", "l", "e", "t", "e", "d">> } :
    StartsWith(s, <<"g", "o", "a", "l", " ">> \o d)

\* ^\[?\]?$
emptyArrayText(s) == s \in {<<>>, <<"[">>, <<"]">>, <<"[", "]">>}

isInvalidTask(s) ==
  \/ noTasksRequired(s) \/ taskComplete(s) \/ doNothing(s) \/ noneOrSkip(s)
  \/ goalLabel(s) \/ noteLabel(s) \/ hereIs(s) \/ theGoal(s) \/ emptyOrNull(s)
  \/ noTasks(s) \/ taskCreationComplete(s) \/ goalAchieved(s)
  \/ emptyArrayText(s)

actionWords ==
  { <<"a", "n", "a", "l", "y", "z", "e">>, <<"c", "r", "e", "a", "t", "e">>,
    <<"d", "e", "v", "e", "l", "o", "p">>, <<"b", "u", "i", "l", "d">>,
    <<"i", "m", "p", "l", "e", "m", "e", "n", "t">>,
    <<"d", "e", "s", "i", "g", "n">>,
    <<"r", "e", "s", "e", "a", "r", "c", "h">>, <<"s", "t", "u", "d", "y">>,
    <<"l", "e", "a", "r", "n">>,
    <<"u", "n", "d", "e", "r", "s", "t", "a", "n", "d">>,
    <<"i", "n", "v", "e", "s", "t", "i", "g", "a", "t", "e">>,
    <<"e", "x", "p", "l", "o", "r", "e">>,
    <<"e", "x", "a", "m", "i", "n", "e">>, <<"r", "e", "v", "i", "e", "w">>,
    <<"e", "v", "a", "l", "u", "a", "t", "e">>,
    <<"a", "s", "s", "e", "s", "s">>, <<"p", "l", "a", "n">>,
    <<"o", "r", "g", "a", "n", "i", "z", "e">>,
    <<"p", "r", "e", "p", "a", "r", "e">>, <<"s", "e", "t", "u", "p">>,
    <<"c", "o", "n", "f", "i", "g", "u", "r", "e">>,
    <<"i", "n", "s", "t", "a", "l", "l">>, <<"d", "e", "p", "l", "o", "y">>,
    <<"t", "e", "s", "t">>, <<"v", "a", "l", "i", "d", "a", "t", "e">>,
    <<"v", "e", "r", "i", "f", "y">>, <<"c", "h", "e", "c", "k">>,
    <<"i", "d", "e", "n", "t", "i", "f", "y">>, <<"f", "i", "n", "d">>,
    <<"s", "e", "a", "r", "c", "h">>, <<"g", "a", "t", "h", "e", "r">>,
    <<"c", "o", "l", "l", "e", "c", "t">>,
    <<"c", "o", "m", "p", "i", "l", "e">>,
    <<"g", "e", "n", "e", "r", "a", "t", "e">>, <<"w", "r", "i", "t", "e">>,
    <<"d", "o", "c", "u", "m", "e", "n", "t">>,
    <<"r", "e", "c", "o", "r", "d">>, <<"t", "r", "a", "c", "k">>,
    <<"m", "o", "n", "i", "t", "o", "r">>,
    <<"o", "p", "t", "i", "m", "i", "z", "e">>,
    <<"i", "m", "p", "r", "o", "v", "e">>, <<"u", "p", "d", "a", "t", "e">>,
    <<"m", "o", "d", "i", "f", "y">>, <<"e", "n", "h", "a", "n", "c", "e">>,
    <<"f", "i", "x">>, <<"s", "o", "l", "v", "e">>,
    <<"r", "e", "s", "o", "l", "v", "e">>,
    <<"a", "d", "d", "r", "e", "s", "s">> }

taskIndicators == { <<"f", "o", "r", " ">>, <<"t", "o", " ">>,
                    <<"o", "f", " ">>, <<"w", "i", "t", "h", " ">>,
                    <<"a", "b", "o", "u", "t", " ">> }

realTasksFilter(input) ==
  LET cleanInput == toLowerCase(trim(input)) IN
  IF Len(cleanInput) < 5 THEN FALSE
  ELSE IF Len(cleanInput) > 300 THEN FALSE
  ELSE IF isInvalidTask(cleanInput) THEN FALSE
  ELSE \/ \E word \in actionWords : Includes(cleanInput, word)
       \/ \E indicator \in taskIndicators : Includes(cleanInput, indicator)

RECURSIVE removeTaskPrefixes(_)
\* list.map(removeTaskPrefix)
removeTaskPrefixes(list) ==
  IF list = <<>> THEN <<>>
  ELSE <<removeTaskPrefix(Head(list))>> \o removeTaskPrefixes(Tail(list))

\* extractTasks(text, completedTasks); nothing in its try block throws for
\* a text that is a string, so its catch block is not reached
extractTasks(text, done) ==
  LET cleanedText == trim(text) IN
  IF text = <<>> THEN <<>>
  ELSE IF Len(cleanedText) = 0 THEN <<>>
  ELSE IF cleanedText = <<"[", "]">> THEN <<>>
  ELSE removeTaskPrefixes(
         SelectSeq(SelectSeq(extractArray(cleanedText), realTasksFilter),
                   LAMBDA task : ~Has(done, task)))


RECURSIVE Flatten(_)
Flatten(pieces) ==
  IF pieces = <<>> THEN <<>> ELSE Head(pieces) \o Flatten(Tail(pieces))

\* the pieces the strings given to removeTaskPrefix are made of
Pieces == { <<"T", "a", "s", "k">>, <<"1">>, <<"2">>, <<" ">>,
            <<":">>, <<"-">>, <<".">>, <<"f", "i", "x">> }

PrefixInputs ==
  { Flatten(p) : p \in UNION { [1..n -> Pieces] : n \in 0..MaxPieces } }

Returned(fn, args, value) ==
  [fn |-> fn, args |-> args, raised |-> FALSE, value |-> value]

\* the strings the lists explored are made of: tasks with and without a
\* prefix, a string too short for a task, one without any word of a task,
\* and one that a noTaskPattern matches
TaskStrings ==
  { <<"f", "i", "x", " ", "t", "h", "e", " ", "b", "u", "g">>,
    <<"1", ":", " ", "f", "i", "x", " ", "t", "h", "e", " ", "b", "u", "g">>,
    <<"w", "r", "i", "t", "e", " ", "t", "o", " ", "d", "i", "s", "k">>,
    <<"a", "b", "c">>,
    <<"h", "e", "l", "l", "o", " ", "w", "o", "r", "l", "d">>,
    <<"t", "a", "s", "k", " ", "d", "o", "n", "e", " ", "t", "o", " ", "f", "i", "x">> }

Lists == UNION { [1..n -> TaskStrings] : n \in 0..MaxListLength }

\* completions that are no JSON array: a short remark, a numbered list,
\* and an array inside a sentence
ProseTexts ==
  { <<"n", "o", " ", "i", "d", "e", "a">>,
    <<"1", ".", " ", "f", "i", "x", " ", "t", "h", "e", " ", "b", "u", "g", " ", "n", "o", "w", "\n", "2", ".", " ", "w", "r", "i", "t", "e", " ", "t", "o", " ", "d", "i", "s", "k", " ", "n", "o", "w">>,
    <<"S", "u", "r", "e", ":", " ", "[", "\"", "f", "i", "x", " ", "t", "h", "e", " ", "b", "u", "g", "\"", "]", " ", "o", "k">> }

Texts == { JSONstringify(list) : list \in Lists } \cup ProseTexts

\* the exclusion lists explored
ExcludeLists == { list \in Lists : Len(list) <= 1 }

ExtractTasks(text, done) ==
  /\ call = NoCall
  /\ call' = Returned("extractTasks", <<text, done>>, extractTasks(text, done))
  /\ UNCHANGED beyondCall

RemoveTaskPrefix(input) ==
  /\ call = NoCall
  /\ call' = Returned("removeTaskPrefix", <<input>>, removeTaskPrefix(input))
  /\ UNCHANGED beyondCall

\* ============================================== the Planning Service
\* The agent functions of src/services/agent-service.ts.  What llm.call
\* gives an agent function is drawn: a completion, or an error it throws.
Ok(value) == [raised |-> FALSE, value |-> value]

Thrown(error) == [raised |-> TRUE, value |-> error]

LLMErrors ==
  {NoApiKeyConfigured, DemoTokenLimitReached, InsufficientDemoTokens, ProviderError}

Completion(text) == [kind |-> "completion", text |-> text, error |-> "none"]

Failure(error) == [kind |-> "error", text |-> <<>>, error |-> error]

\* await llm.call(...) inside a try block
llmCall(outcome) ==
  IF outcome.kind = "error" THEN Thrown(outcome.error) ELSE Ok(outcome.text)

\* mutant of tryCatch: what the try block throws is thrown on
tryCatchRethrows(body, fallback) == body

\* try { body } catch (error) { return fallback }
tryCatch(body, fallback) ==
  IF body.raised THEN Ok(fallback) ELSE body

generateFallbackTasks(goal) ==
  LET goalLower == toLowerCase(goal) IN
  IF \/ Includes(goalLower, <<"r", "e", "s", "e", "a", "r", "c", "h">>)
     \/ Includes(goalLower, <<"a", "n", "a", "l", "y", "z", "e">>)
     \/ Includes(goalLower, <<"s", "t", "u", "d", "y">>)
  THEN << <<"R", "e", "s", "e", "a", "r", "c", "h", " ", "b", "a", "c", "k",
         "g", "r", "o", "u", "n", "d", " ", "i", "n", "f", "o", "r", "m",
         "a", "t", "i", "o", "n", " ", "a", "b", "o", "u", "t", ":", " ">> \o goal,
       <<"G", "a", "t", "h", "e", "r", " ", "r", "e", "l", "e", "v", "a",
         "n", "t", " ", "d", "a", "t", "a", " ", "a", "n", "d", " ", "s",
         "o", "u", "r", "c", "e", "s">>,
       <<"A", "n", "a", "l", "y", "z", "e", " ", "f", "i", "n", "d", "i",
         "n", "g", "s", " ", "a", "n", "d", " ", "k", "e", "y", " ", "i",
         "n", "s", "i", "g", "h", "t", "s">>,
       <<"S", "u", "m", "m", "a", "r", "i", "z", "e", " ", "r", "e", "s",
         "e", "a", "r", "c", "h", " ", "c", "o", "n", "c", "l", "u", "s",
         "i", "o", "n", "s">> >>
  ELSE IF \/ Includes(goalLower, <<"c", "r", "e", "a", "t", "e">>)
          \/ Includes(goalLower, <<"b", "u", "i", "l", "d">>)
          \/ Includes(goalLower, <<"d", "e", "v", "e", "l", "o", "p">>)
          \/ Includes(goalLower, <<"m", "a", "k", "e">>)
  THEN << <<"P", "l", "a", "n", " ", "t", "h", "e", " ", "r", "e", "q", "u",
         "i", "r", "e", "m", "e", "n", "t", "s", " ", "f", "o", "r", ":",
         " ">> \o goal,
       <<"D", "e", "s", "i", "g", "n", " ", "t", "h", "e", " ", "s", "t",
         "r", "u", "c", "t", "u", "r", "e", " ", "a", "n", "d", " ", "a",
         "p", "p", "r", "o", "a", "c", "h">>,
       <<"B", "e", "g", "i", "n", " ", "i", "m", "p", "l", "e", "m", "e",
         "n", "t", "a", "t", "i", "o", "n", " ", "o", "f", " ", "c", "o",
         "r", "e", " ", "c", "o", "m", "p", "o", "n", "e", "n", "t", "s">>,
       <<"T", "e", "s", "t", " ", "a", "n", "d", " ", "r", "e", "f", "i",
         "n", "e", " ", "t", "h", "e", " ", "s", "o", "l", "u", "t", "i",
         "o", "n">> >>
  ELSE IF \/ Includes(goalLower, <<"l", "e", "a", "r", "n">>)
          \/ Includes(goalLower, <<"u", "n", "d", "e", "r", "s", "t", "a", "n", "d">>)
          \/ Includes(goalLower, <<"m", "a", "s", "t", "e", "r">>)
  THEN << <<"I", "d", "e", "n", "t", "i", "f", "y", " ", "k", "e", "y", " ",
         "c", "o", "n", "c", "e", "p", "t", "s", " ", "t", "o", " ", "l",
         "e", "a", "r", "n", " ", "f", "o", "r", ":", " ">> \o goal,
       <<"S", "t", "u", "d", "y", " ", "f", "u", "n", "d", "a", "m", "e",
         "n", "t", "a", "l", " ", "p", "r", "i", "n", "c", "i", "p", "l",
         "e", "s", " ", "a", "n", "d", " ", "b", "a", "s", "i", "c", "s">>,
       <<"P", "r", "a", "c", "t", "i", "c", "e", " ", "w", "i", "t", "h",
         " ", "e", "x", "a", "m", "p", "l", "e", "s", " ", "a", "n", "d",
         " ", "e", "x", "e", "r", "c", "i", "s", "e", "s">>,
       <<"A", "p", "p", "l", "y", " ", "k", "n", "o", "w", "l", "e", "d",
         "g", "e", " ", "t", "o", " ", "r", "e", "a", "l", " ", "s", "c",
         "e", "n", "a", "r", "i", "o", "s">> >>
  ELSE IF \/ Includes(goalLower, <<"s", "o", "l", "v", "e">>)
          \/ Includes(goalLower, <<"f", "i", "x">>)
          \/ Includes(goalLower, <<"r", "e", "s", "o", "l", "v", "e">>)
  THEN << <<"A", "n", "a", "l", "y", "z", "e", " ", "t", "h", "e", " ", "p",
         "r", "o", "b", "l", "e", "m", ":", " ">> \o goal,
       <<"I", "d", "e", "n", "t", "i", "f", "y", " ", "p", "o", "t", "e",
         "n", "t", "i", "a", "l", " ", "s", "o", "l", "u", "t", "i", "o",
         "n", "s", " ", "a", "n", "d", " ", "a", "p", "p", "r", "o", "a",
         "c", "h", "e", "s">>,
       <<"T", "e", "s", "t", " ", "a", "n", "d", " ", "e", "v", "a", "l",
         "u", "a", "t", "e", " ", "d", "i", "f", "f", "e", "r", "e", "n",
         "t", " ", "s", "o", "l", "u", "t", "i", "o", "n", "s">>,
       <<"I", "m", "p", "l", "e", "m", "e", "n", "t", " ", "t", "h", "e",
         " ", "b", "e", "s", "t", " ", "s", "o", "l", "u", "t", "i", "o",
         "n">> >>
  ELSE IF \/ Includes(goalLower, <<"p", "l", "a", "n">>)
          \/ Includes(goalLower, <<"o", "r", "g", "a", "n", "i", "z", "e">>)
          \/ Includes(goalLower, <<"s", "t", "r", "a", "t", "e", "g", "y">>)
  THEN << <<"D", "e", "f", "i", "n", "e", " ", "s", "c", "o", "p", "e", " ",
         "a", "n", "d", " ", "o", "b", "j", "e", "c", "t", "i", "v", "e",
         "s", " ", "f", "o", "r", ":", " ">> \o goal,
       <<"B", "r", "e", "a", "k", " ", "d", "o", "w", "n", " ", "i", "n",
         "t", "o", " ", "m", "a", "n", "a", "g", "e", "a", "b", "l", "e",
         " ", "p", "h", "a", "s", "e", "s">>,
       <<"I", "d", "e", "n", "t", "i", "f", "y", " ", "r", "e", "s", "o",
         "u", "r", "c", "e", "s", " ", "a", "n", "d", " ", "r", "e", "q",
         "u", "i", "r", "e", "m", "e", "n", "t", "s">>,
       <<"C", "r", "e", "a", "t", "e", " ", "d", "e", "t", "a", "i", "l",
         "e", "d", " ", "t", "i", "m", "e", "l", "i", "n", "e", " ", "a",
         "n", "d", " ", "m", "i", "l", "e", "s", "t", "o", "n", "e", "s">> >>
  ELSE << <<"A", "n", "a", "l", "y", "z", "e", " ", "a", "n", "d", " ", "u",
         "n", "d", "e", "r", "s", "t", "a", "n", "d", ":", " ">> \o goal,
       <<"R", "e", "s", "e", "a", "r", "c", "h", " ", "r", "e", "l", "e",
         "v", "a", "n", "t", " ", "i", "n", "f", "o", "r", "m", "a", "t",
         "i", "o", "n", " ", "a", "n", "d", " ", "c", "o", "n", "t", "e",
         "x", "t">>,
       <<"D", "e", "v", "e", "l", "o", "p", " ", "a", " ", "d", "e", "t",
         "a", "i", "l", "e", "d", " ", "a", "c", "t", "i", "o", "n", " ",
         "p", "l", "a", "n">>,
       <<"E", "x", "e", "c", "u", "t", "e", " ", "t", "h", "e", " ", "p",
         "l", "a", "n", " ", "s", "t", "e", "p", " ", "b", "y", " ", "s",
         "t", "e", "p">> >>

startGoalAgent(goal, outcome) ==
  LET completion == llmCall(outcome)
      found == extractTasks(completion.value, <<>>)
  IN tryCatch(IF completion.raised THEN completion
              ELSE IF Len(found) = 0 THEN Ok(generateFallbackTasks(goal))
              ELSE Ok(found),
              generateFallbackTasks(goal))

DefaultAnalysis ==
  [action |-> <<"r", "e", "a", "s", "o", "n">>,
   arg |-> <<"F", "a", "l", "l", "b", "a", "c", "k", " ", "d", "u", "e", " ",
            "t", "o", " ", "p", "a", "r", "s", "i", "n", "g", " ", "f", "a",
            "i", "l", "u", "r", "e">>]

searchKeywords ==
  { <<"c", "u", "r", "r", "e", "n", "t">>,
    <<"l", "a", "t", "e", "s", "t">>,
    <<"r", "e", "c", "e", "n", "t">>,
    <<"t", "o", "d", "a", "y">>,
    <<"n", "o", "w">>,
    <<"u", "p", "d", "a", "t", "e">>,
    <<"n", "e", "w", "s">>,
    <<"p", "r", "i", "c", "e">>,
    <<"s", "t", "o", "c", "k">>,
    <<"w", "e", "a", "t", "h", "e", "r">>,
    <<"2", "0", "2", "4">>,
    <<"2", "0", "2", "5">> }

\* the catch block of analyzeTaskAgent
analysisFallback(task) ==
  IF \E keyword \in searchKeywords : Includes(toLowerCase(task), keyword)
  THEN [action |-> <<"s", "e", "a", "r", "c", "h">>, arg |-> SubSeq(task, 1, IF Len(task) < 50 THEN Len(task) ELSE 50)]
  ELSE DefaultAnalysis

\* analyzeTaskAgent; decoded is what the first {...} of the completion
\* decodes to after sanitizeJsonString, and decoded.parsed is false when
\* there is no such span or JSON.parse throws
analyzeTaskAgent(task, outcome, decoded) ==
  LET completion == llmCall(outcome) IN
  tryCatch(IF completion.raised THEN completion
           ELSE IF decoded.parsed /\ decoded.action # <<>> /\ decoded.arg # <<>>
                THEN Ok([action |-> decoded.action, arg |-> decoded.arg])
           ELSE Thrown("Invalid analysis response"),
           analysisFallback(task))

\* executeTaskAgent; found tells whether performWebSearch, which throws
\* nothing, gave any result; withSearch is the outcome of the call of the
\* LLM that has the search results, outcome that of the call without.  The
\* INFO line is written without the backticks around it.
executeTaskAgent(task, analysis, enableWebSearch, found, withSearch, outcome) ==
  LET search == analysis.action = <<"s", "e", "a", "r", "c", "h">>
      answered ==
        search /\ enableWebSearch /\ found /\ ~llmCall(withSearch).raised
      searched ==
             Ok(llmCall(withSearch).value \o <<"\n", "\n", "*", "*", "S", "o", "u", "r",
                                    "c", "e", "s", ":", "*", "*", " ">> \o <<"s">>)
      completion == llmCall(outcome)
  IN IF answered THEN searched
     ELSE tryCatch(
            IF completion.raised THEN completion
            ELSE IF search /\ ~enableWebSearch
                 THEN Ok(<<"I", "N", "F", "O", ":", " ", "W", "e", "b", " ",
                           "s", "e", "a", "r", "c", "h", " ", "i", "s", " ",
                           "d", "i", "s", "a", "b", "l", "e", "d", ".", " ",
                           "U", "s", "i", "n", "g", " ", "r", "e", "a", "s",
                           "o", "n", "i", "n", "g", " ", "i", "n", "s", "t",
                           "e", "a", "d", ".", "\n", "\n">>
                         \o completion.value)
            ELSE Ok(completion.value),
            <<"T", "a", "s", "k", " ", "c", "o", "m", "p", "l", "e", "t",
              "e", "d", ":", " ">> \o task
              \o <<"\n", "\n", "N", "o", "t", "e", ":", " ", "E", "x", "e",
                   "c", "u", "t", "e", "d", " ", "w", "i", "t", "h", " ",
                   "b", "a", "s", "i", "c", " ", "r", "e", "a", "s", "o",
                   "n", "i", "n", "g", " ", "d", "u", "e", " ", "t", "o",
                   " ", "A", "P", "I", " ", "l", "i", "m", "i", "t", "a",
                   "t", "i", "o", "n", "s", ".">>)

\* newTask.toLowerCase().split(' ').filter(w => w.length > 3)
longWords(task) ==
  SelectSeq(split(toLowerCase(task), <<" ">>), LAMBDA w : Len(w) > 3)

\* overlap > Math.min(words1.length, words2.length) * 0.6
overlaps(newTask, existingTask) ==
  LET words1 == longWords(newTask)
      words2 == longWords(existingTask)
      overlap == Cardinality({i \in 1..Len(words1) : Has(words2, words1[i])})
      least == IF Len(words1) < Len(words2) THEN Len(words1) ELSE Len(words2)
  IN 10 * overlap > 6 * least

\* totalCompletedTasks / (totalCompletedTasks + remainingTasksCount + 1),
\* kept as a fraction
progressRatio(done, remaining) ==
  [num |-> Len(done), den |-> Len(done) + Len(remaining) + 1]

\* mutant of intelligentTaskFilter: the remaining tasks are not counted
intelligentTaskFilterUncounted(newTasks, goal, done, remaining, ratio) ==
  slice(newTasks, 2)

intelligentTaskFilter(newTasks, goal, done, remaining, ratio) ==
  LET allExistingTasks == done \o remaining
      filteredTasks ==
        SelectSeq(newTasks, LAMBDA newTask :
          ~\E i \in 1..Len(allExistingTasks) : overlaps(newTask, allExistingTasks[i]))
      limitedTasks == slice(filteredTasks, 2)
      goalLower == toLowerCase(goal)
  IN IF Len(newTasks) = 0 THEN <<>>
     ELSE IF 10 * ratio.num > 7 * ratio.den /\ Len(remaining) <= 2 THEN <<>>
     ELSE IF Len(remaining) > 4 THEN <<>>
     ELSE IF /\ \/ Includes(goalLower, <<"w", "h", "a", "t", " ", "i", "s">>)
                \/ Includes(goalLower, <<"e", "x", "p", "l", "a", "i", "n">>)
                \/ Includes(goalLower, <<"d", "e", "f", "i", "n", "e">>)
             /\ Len(done) >= 2
          THEN <<>>
     ELSE limitedTasks

\* mutant of createTasksAgent: the extracted tasks are returned unfiltered
createTasksAgentUnfiltered(goal, remaining, done, outcome) ==
  LET completion == llmCall(outcome) IN
  tryCatch(IF completion.raised THEN completion
           ELSE Ok(extractTasks(completion.value, done)),
           <<>>)

createTasksAgent(goal, remaining, done, outcome) ==
  LET completion == llmCall(outcome) IN
  tryCatch(IF completion.raised THEN completion
           ELSE Ok(intelligentTaskFilter(extractTasks(completion.value, done),
                                         goal, done, remaining,
                                         progressRatio(done, remaining))),
           <<>>)

\* ------------------------------------------------ calls of the service
Goals == { <<"f", "i", "x", " ", "i", "t">>, <<"w", "h", "a", "t", " ", "i", "s", " ", "x">> }

Outcomes(texts) ==
  { Completion(text) : text \in texts } \cup { Failure(error) : error \in LLMErrors }

\* what the completion of analyzeTaskAgent decodes to
Decodings ==
  { [parsed |-> FALSE, action |-> <<>>, arg |-> <<>>] }
  \cup { [parsed |-> TRUE, action |-> action, arg |-> arg] :
           action \in {<<>>, <<"r", "e", "a", "s", "o", "n">>, <<"s", "e", "a", "r", "c", "h">>},
           arg \in {<<>>, <<"x">>} }

AnalyzedTasks == { <<"f", "i", "x", " ", "t", "h", "e", " ", "b", "u", "g">>, <<"l", "a", "t", "e", "s", "t", " ", "n", "e", "w", "s">> }

Analyses ==
  { DefaultAnalysis, [action |-> <<"s", "e", "a", "r", "c", "h">>, arg |-> <<"x">>] }

ExecuteTexts == { <<>>, <<"n", "o", " ", "i", "d", "e", "a">> }

\* n copies of one string
Copies(n, s) == [i \in 1..n |-> s]

CompletedLists ==
  { Copies(n, s) : n \in 0..MaxCompleted,
                   s \in {<<"f", "i", "x", " ", "t", "h", "e", " ", "b", "u", "g">>, <<"r", "e", "a", "d", " ", "i", "t">>} }

RemainingLists ==
  { Copies(n, <<"r", "e", "a", "d", " ", "t", "h", "e", " ", "d", "o", "c", "s">>) : n \in 0..MaxRemaining }

\* the completions CreateTasks is explored with: full lists that begin
\* with one task, and the completions that are no JSON array
ProposedTexts ==
  { JSONstringify(list) :
      list \in { l \in Lists : Len(l) = MaxListLength /\ l[1] = <<"f", "i", "x", " ", "t", "h", "e", " ", "b", "u", "g">> } }
  \cup ProseTexts

Answered(fn, args, result) ==
  [fn |-> fn, args |-> args, raised |-> result.raised, value |-> result.value]

StartGoalAgent(goal, outcome) ==
  /\ call = NoCall
  /\ call' = Answered("startGoalAgent", <<goal, outcome>>,
                    startGoalAgent(goal, outcome))
  /\ UNCHANGED beyondCall

AnalyzeTaskAgent(task, outcome, decoded) ==
  /\ call = NoCall
  /\ call' = Answered("analyzeTaskAgent", <<task, outcome, decoded>>,
                    analyzeTaskAgent(task, outcome, decoded))
  /\ UNCHANGED beyondCall

ExecuteTaskAgent(task, analysis, enableWebSearch, found, withSearch, outcome) ==
  /\ call = NoCall
  /\ call' = Answered("executeTaskAgent",
                    <<task, analysis, enableWebSearch, found, withSearch, outcome>>,
                    executeTaskAgent(task, analysis, enableWebSearch, found,
                                     withSearch, outcome))
  /\ UNCHANGED beyondCall

CreateTasksAgent(goal, remaining, done, outcome) ==
  /\ call = NoCall
  /\ call' = Answered("createTasksAgent", <<goal, remaining, done, outcome>>,
                    createTasksAgent(goal, remaining, done, outcome))
  /\ UNCHANGED beyondCall

\* the caller has taken what the call returned
CallReturns ==
  /\ call # NoCall
  /\ call' = NoCall
  /\ UNCHANGED beyondCall

NextPlanning ==
  \/ \E input \in PrefixInputs : RemoveTaskPrefix(input)
  \/ \E text \in Texts : \E done \in ExcludeLists : ExtractTasks(text, done)
  \/ \E goal \in Goals : \E outcome \in Outcomes(Texts) :
       StartGoalAgent(goal, outcome)
  \/ \E task \in AnalyzedTasks : \E outcome \in Outcomes({<<>>}) :
       \E decoded \in Decodings : AnalyzeTaskAgent(task, outcome, decoded)
  \/ \E analysis \in Analyses : \E enableWebSearch, found \in BOOLEAN :
       \E withSearch, outcome \in Outcomes(ExecuteTexts) :
         ExecuteTaskAgent(<<"f", "i", "x", " ", "i", "t">>, analysis, enableWebSearch, found,
                          withSearch, outcome)
  \/ \E goal \in Goals : \E remaining \in RemainingLists :
       \E done \in CompletedLists : \E outcome \in Outcomes(ProposedTexts) :
         CreateTasksAgent(goal, remaining, done, outcome)
  \/ CallReturns

SpecPlanning == InitTokenStore /\ [][NextPlanning]_vars

\* ================================================ the stream decoders
\* MultiProviderLLM.processOpenAIStream and processOpenRouterStream of
\* src/services/agent-service.ts.  A chunk is what one reader.read() gives:
\* the stream's text cut at any place.  The text is ASCII, of which
\* TextDecoder makes one character per byte.
MaxDeltas == 2            \* most content deltas in one stream
MaxCuts == 1              \* most places the network cuts a stream at

DataPrefix == <<"d", "a", "t", "a", ":", " ">>

DoneSentinel == <<"[", "D", "O", "N", "E", "]">>

Contents == { <<"a">>, <<"b", "c">> }

\* the JSON text of the event that carries one content delta
DeltaJSON(content) ==
  <<"{", "\"", "c", "h", "o", "i", "c", "e", "s", "\"", ":", "[", "{", "\"", "d", "e", "l", "t", "a", "\"", ":", "{", "\"", "c", "o", "n", "t", "e", "n", "t", "\"", ":", "\"">>
    \o content \o <<"\"", "}", "}", "]", "}">>

\* JSON.parse(data).choices?.[0]?.delta?.content: the data lines explored
\* are delta events and pieces of them, and a piece of a JSON object is no
\* JSON text, so JSON.parse throws on it
deltaContent(data) ==
  IF \E content \in Contents : data = DeltaJSON(content)
  THEN [parsed |-> TRUE,
        content |-> CHOOSE content \in Contents : data = DeltaJSON(content)]
  ELSE [parsed |-> FALSE, content |-> <<>>]

\* fullResponse after one line that starts with 'data: ' and is not [DONE]
withDelta(fullResponse, data) ==
  LET delta == deltaContent(data) IN
  IF delta.parsed /\ delta.content # <<>> THEN fullResponse \o delta.content
  ELSE fullResponse

RECURSIVE openAILines(_, _)
\* for (const line of lines) of processOpenAIStream
openAILines(lines, fullResponse) ==
  IF lines = <<>> THEN [returned |-> FALSE, fullResponse |-> fullResponse]
  ELSE LET line == Head(lines) IN
       IF ~StartsWith(line, DataPrefix)
       THEN openAILines(Tail(lines), fullResponse)
       ELSE LET data == SubSeq(line, 7, Len(line)) IN
            IF data = DoneSentinel
            THEN [returned |-> TRUE, fullResponse |-> fullResponse]
            ELSE openAILines(Tail(lines), withDelta(fullResponse, data))

RECURSIVE openAIChunks(_, _)
openAIChunks(chunks, fullResponse) ==
  IF chunks = <<>> THEN fullResponse
  ELSE LET read == openAILines(split(Head(chunks), <<"\n">>), fullResponse)
       IN IF read.returned THEN read.fullResponse
          ELSE openAIChunks(Tail(chunks), read.fullResponse)

processOpenAIStream(chunks) == openAIChunks(chunks, <<>>)

RECURSIVE openRouterLines(_, _)
\* the inner while (true) of processOpenRouterStream
openRouterLines(buffer, fullResponse) ==
  LET lineEnd == indexOf(buffer, <<"\n">>, 1) IN
  IF lineEnd = 0
  THEN [returned |-> FALSE, buffer |-> buffer, fullResponse |-> fullResponse]
  ELSE LET line == trim(SubSeq(buffer, 1, lineEnd - 1))
           rest == SubSeq(buffer, lineEnd + 1, Len(buffer))
       IN IF StartsWith(line, <<":">>) THEN openRouterLines(rest, fullResponse)
          ELSE IF ~StartsWith(line, DataPrefix)
          THEN openRouterLines(rest, fullResponse)
          ELSE LET data == SubSeq(line, 7, Len(line)) IN
               IF data = DoneSentinel
               THEN [returned |-> TRUE, buffer |-> rest,
                     fullResponse |-> fullResponse]
               ELSE openRouterLines(rest, withDelta(fullResponse, data))

RECURSIVE openRouterChunks(_, _, _)
openRouterChunks(chunks, buffer, fullResponse) ==
  IF chunks = <<>> THEN fullResponse
  ELSE LET read == openRouterLines(buffer \o Head(chunks), fullResponse)
       IN IF read.returned THEN read.fullResponse
          ELSE openRouterChunks(Tail(chunks), read.buffer, read.fullResponse)

processOpenRouterStream(chunks) == openRouterChunks(chunks, <<>>, <<>>)

\* ------------------------------------------------ streams and chunks
Event(data) == DataPrefix \o data \o <<"\n", "\n">>

\* the streams explored: a comment line or none, the events of up to
\* MaxDeltas content deltas, and the [DONE] event
DeltaLists == UNION { [1..n -> Contents] : n \in 0..MaxDeltas }

Comments == { <<>>, <<":", " ", "O", "P", "E", "N", "R", "O", "U", "T", "E", "R", " ", "P", "R", "O", "C", "E", "S", "S", "I", "N", "G", "\n", "\n">> }

StreamText(comment, deltas) ==
  comment \o Flatten([i \in 1..Len(deltas) |-> Event(DeltaJSON(deltas[i]))])
    \o Event(DoneSentinel)

\* the places a text of length n is cut at: increasing, inside the text
Cuts(n) ==
  UNION { { cuts \in [1..k -> 1..(n - 1)] :
              \A i \in 1..(k - 1) : cuts[i] < cuts[i + 1] } : k \in 0..MaxCuts }

RECURSIVE chunked(_, _, _)
\* the chunks of text for the cuts from the i-th on, from place `from`
chunked(text, cuts, from) ==
  IF cuts = <<>> THEN << SubSeq(text, from, Len(text)) >>
  ELSE << SubSeq(text, from, Head(cuts)) >>
         \o chunked(text, Tail(cuts), Head(cuts) + 1)

Decoders == {"processOpenAIStream", "processOpenRouterStream"}

decoded(decoder, chunks) ==
  IF decoder = "processOpenAIStream" THEN processOpenAIStream(chunks)
  ELSE processOpenRouterStream(chunks)

\* a provider's response is read to its end by the decoder of the provider
ProcessStream(decoder, comment, deltas, cuts) ==
  /\ call = NoCall
  /\ call' = Returned(decoder, <<deltas, cuts, comment>>,
                      decoded(decoder,
                              chunked(StreamText(comment, deltas), cuts, 1)))
  /\ UNCHANGED beyondCall

NextStream ==
  \/ \E decoder \in Decoders : \E comment \in Comments :
       \E deltas \in DeltaLists :
         \E cuts \in Cuts(Len(StreamText(comment, deltas))) :
           ProcessStream(decoder, comment, deltas, cuts)
  \/ CallReturns

SpecStream == InitTokenStore /\ [][NextStream]_vars

\* ------------------------------------------- the growth of the task list
\* An unattended Automatic run whose follow-up tasks are what
\* createTasksAgent makes of the model's completion.  getAdditionalTasks
\* hands it the values of the STARTED tasks and this.completedTasks; a task
\* value is a text of the model's, so every remaining task stands for one
\* text and every completed task for another.  The goal is drawn at each
\* request, which admits every run with one goal.
MaxFirstTasks == 7        \* most task strings StartGoal answers with here

InitGrowth ==
  /\ Init
  /\ mode = AUTOMATIC_MODE
  /\ ~guestSettings.isGuestMode
  /\ session = "none"
  /\ ~isWebSearchEnabled
  /\ maxLoops <= DEFAULT_MAX_LOOPS_FREE

\* the completions explored here: two new tasks, one, and no JSON array
FollowUpTexts ==
  { JSONstringify(<< <<"f", "i", "x", " ", "t", "h", "e", " ", "b", "u", "g">>,
                     <<"w", "r", "i", "t", "e", " ", "t", "o", " ", "d", "i", "s", "k">> >>),
    JSONstringify(<< <<"f", "i", "x", " ", "t", "h", "e", " ", "b", "u", "g">> >>),
    <<"n", "o", " ", "i", "d", "e", "a">> }

CreateTasksReturn(r, goal, outcome) ==
  LET remaining == Copies(Len(getRemainingTasks(tasks)),
                          <<"r", "e", "a", "d", " ", "t", "h", "e", " ", "d", "o", "c", "s">>)
      done == Copies(Len(completedTasks), <<"r", "e", "a", "d", " ", "i", "t">>)
      newTasks == createTasksAgent(goal, remaining, done, outcome)
  IN /\ ~newTasks.raised
     /\ CreateAnswer(r, Len(newTasks.value))

NextGrowth ==
  \/ HandleNewGoal
  \/ \E r \in Slots : \E n \in 0..MaxFirstTasks : InitialTasksReturn(r, n)
  \/ \E r \in Slots : InitialTaskTimer(r)
  \/ \E r \in Slots : LoopTimer(r)
  \/ \E r \in Slots : ExecuteReturn(r)
  \/ \E r \in Slots : CreateTimer(r)
  \/ \E r \in Slots : \E goal \in Goals : \E outcome \in Outcomes(FollowUpTexts) :
       CreateTasksReturn(r, goal, outcome)
  \/ \E r \in Slots : NewTaskTimer(r)

SpecGrowth == InitGrowth /\ [][NextGrowth]_vars

\* ============================================================ claims
Terminated == agent # "unborn" /\ AllIdle

KindCount(kind) == Cardinality(SelectIdx(messages, LAMBDA m : m.kind = kind))

\* The run met no stop() and no failing request, and every CreateTasks
\* request it made was answered with at least one task.
AlwaysCreated ==
  createCalled /\ ~createdNone /\ raised = {} /\ stopCalls = 0

\* C1: in Automatic mode with loop budget L, a run whose CreateTasks step
\* returns at least one task on every iteration never counts more than L+1
\* loop iterations, and once it has ended its last emitted message is the
\* loop-limit message.
C1_LoopLimit ==
  /\ numLoops <= maxLoops + 1
  /\ (mode = AUTOMATIC_MODE /\ Terminated /\ AlwaysCreated)
       => /\ numLoops = maxLoops + 1
          /\ Len(messages) > 0
          /\ Last(messages).kind = "loop-limit"

C1_Witness ==
  /\ mode = AUTOMATIC_MODE /\ Terminated /\ AlwaysCreated
  /\ numLoops = maxLoops + 1
  /\ Last(messages).kind = "loop-limit"

ExecutingTasks == SelectIdx(tasks, LAMBDA t : t.status = TASK_STATUS_EXECUTING)

\* C2: in every reachable state of a run, under any interleaving of start,
\* resume and stop with the steps in flight, at most one task has status
\* EXECUTING.
C2_AtMostOneExecuting == Cardinality(ExecutingTasks) <= 1

\* C5: a task becomes EXECUTING only when no task emitted before it still
\* has status STARTED (tasks run in the order of their creation).
C5_Fifo ==
  [][\A i \in 1..Len(tasks) :
       (tasks[i].status = TASK_STATUS_STARTED
        /\ tasks'[i].status = TASK_STATUS_EXECUTING)
       => \A j \in 1..(i - 1) : tasks[j].status # TASK_STATUS_STARTED]_vars

C5_Witness ==
  /\ Len(tasks) >= 3
  /\ tasks[1].status \in {TASK_STATUS_COMPLETED, TASK_STATUS_FINAL}
  /\ tasks[2].status = TASK_STATUS_EXECUTING
  /\ tasks[3].status = TASK_STATUS_STARTED

\* C8: when the caller is in guest mode with an invalid guest key and has no
\* usable API key, start emits the error message and halts: StartGoal is
\* never requested, no goal and no task message is emitted, no loop
\* iteration runs.
C8_RejectedStart ==
  (agent # "unborn" /\ guestSettings.isGuestMode /\ ~guestSettings.isValidGuest
   /\ ~hasValidApiKey)
  => /\ startGoalCalls = 0
     /\ Len(messages) >= 1
     /\ messages[1].kind = "invalid-guest-key"
     /\ \A i \in 1..Len(messages) :
          messages[i].type \notin {MESSAGE_TYPE_GOAL, MESSAGE_TYPE_TASK}
     /\ numLoops = 0
     /\ tasks = <<>>
     /\ AllIdle
     /\ ~isRunning

C8_Witness ==
  /\ agent # "unborn" /\ guestSettings.isGuestMode /\ ~guestSettings.isValidGuest
  /\ ~hasValidApiKey
  /\ Len(messages) = 2
  /\ messages[1].kind = "invalid-guest-key"

Rank(status) ==
  CASE status = TASK_STATUS_STARTED -> 1
    [] status = TASK_STATUS_EXECUTING -> 2
    [] status = TASK_STATUS_COMPLETED -> 3
    [] status = TASK_STATUS_FINAL -> 4
    [] OTHER -> 0

TaskMessages == SelectIdx(messages, isTask)

\* C3: in the message stream the statuses emitted for one task id follow
\* STARTED, EXECUTING, COMPLETED, FINAL: each stage after STARTED is
\* preceded by the stage before it, and no status is followed by an
\* earlier or equal one.
C3_StatusOrder ==
  \A i \in TaskMessages :
    /\ Rank(messages[i].status) > 1 =>
         \E j \in TaskMessages :
           /\ j < i
           /\ messages[j].taskId = messages[i].taskId
           /\ Rank(messages[j].status) = Rank(messages[i].status) - 1
    /\ \A j \in TaskMessages :
         (j < i /\ messages[j].taskId = messages[i].taskId)
         => Rank(messages[j].status) < Rank(messages[i].status)

C3_Witness ==
  \E i \in TaskMessages :
    /\ messages[i].status = TASK_STATUS_FINAL
    /\ Cardinality({j \in TaskMessages :
                      messages[j].taskId = messages[i].taskId}) = 4

AllFinal == \A i \in 1..Len(tasks) : tasks[i].status = TASK_STATUS_FINAL

CompletedOnce ==
  /\ Terminated
  /\ AllFinal
  /\ KindCount("all-tasks-completed") = 1
  /\ Last(messages).kind = "all-tasks-completed"
  /\ shutdownCalls = 1

\* C4: in Automatic mode, when StartGoal returns n tasks (n not above the
\* loop budget) and CreateTasks returns no task on every iteration, the run
\* eventually has every task FINAL, the "all tasks completed" message
\* emitted exactly once and as its last message, shutdown invoked, and it
\* stays that way.
C4_HappyPath == [](startGoalCalls = 1 => <>[]CompletedOnce)

C4_Witness == CompletedOnce /\ Len(tasks) = MaxInitialTasks

\* C6: the first stop() on a running agent clears the running flag, delivers
\* exactly one manual-shutdown message and invokes the shutdown callback;
\* every further stop() leaves the agent's fields and the task list as they
\* are and delivers no message.
C6_StopIdempotent ==
  [][(stopCalls' = stopCalls + 1) =>
       /\ (stopCalls = 0 /\ isRunning) =>
            /\ messages' = Append(messages,
                 Msg(MESSAGE_TYPE_SYSTEM, "manually-shutdown", currentTask,
                     "none", NoTask))
            /\ ~isRunning'
            /\ shutdownCalls' = shutdownCalls + 1
       /\ (stopCalls >= 1) =>
            /\ messages' = messages
            /\ tasks' = tasks
            /\ UNCHANGED fields]_vars

C6_Witness ==
  /\ stopCalls = 2
  /\ KindCount("manually-shutdown") = 1
  /\ ~isRunning

\* C7: once stop() has been called and no resume has followed, no message
\* reaches the sink and no task is marked EXECUTING, in either mode, also
\* when requests that were in flight resolve afterwards.
C7_SilentAfterStop ==
  [][stoppedNoResume => (messages' = messages /\ tasks' = tasks)]_vars

\* a request in flight at stop() resolved afterwards and its result was dropped
C7_Witness ==
  /\ stoppedNoResume
  /\ \E i \in 1..Len(tasks) :
       /\ tasks[i].status = TASK_STATUS_EXECUTING
       /\ \E j \in 1..Len(completedTasks) : completedTasks[j] = tasks[i].taskId

\* C9: after StartGoal has raised, the run is stopped: the agent is no
\* longer in the running state and executes no task.
C9_GoalFailureFatal ==
  ("StartGoal" \in raised) => (~isRunning /\ numLoops = 0)

\* C10: a failure while analyzing, executing or creating follow-ups for a
\* task never leaves the run ended with a task still EXECUTING: the task is
\* marked FINAL and the run goes on or ends normally.
C10_TaskFailureNonFatal ==
  (Terminated /\ stopCalls = 0) => ExecutingTasks = {}

\* ------------------------------------------------ claims on the store
\* the row a consume request works from: its SELECT's result, or that result
\* as the handler overwrote it after resetting an expired row
Snapshot(h) ==
  IF handlers[h].pc = "reset" THEN handlers[h].user
  ELSE CHOOSE row \in handlers[h].rows : TRUE

Finishing(h, method) ==
  /\ handlers[h].method = method
  /\ handlers[h].pc \in {"selected", "reset"}
  /\ handlers'[h].pc = "done"

\* C11: no row of the token store ever has tokens_remaining below 0, under
\* any overlap of initialize, getStatus, consume and reset requests; a
\* consume request for more than the balance it read is answered 403 and
\* writes nothing.
C11_NeverNegative ==
  /\ [](\A i \in 1..Len(demo_tokens) : demo_tokens[i].tokens_remaining >= 0)
  /\ [][\A h \in Handlers :
          (/\ Finishing(h, "PUT")
           /\ handlers[h].rows # {} \/ handlers[h].pc = "reset"
           /\ Snapshot(h).tokens_remaining < handlers[h].tokensToConsume
           /\ ~(handlers[h].pc = "selected" /\ Expired(Snapshot(h))))
          => /\ handlers'[h].res.status = 403
             /\ demo_tokens' = demo_tokens]_vars

C11_Witness ==
  \E h \in Handlers :
    /\ handlers[h].method = "PUT"
    /\ handlers[h].pc = "done"
    /\ handlers[h].res.status = 403
    /\ \E i \in 1..Len(demo_tokens) :
         /\ demo_tokens[i].session_token = handlers[h].sessionToken
         /\ demo_tokens[i].tokens_remaining > 0
         /\ demo_tokens[i].tokens_remaining < handlers[h].tokensToConsume

\* C14: within one reset window of a row the amounts of all consume
\* requests answered 200 sum to no more than the allowance, and tokens_used
\* is that sum.
C14_AtomicConsume ==
  \A i \in 1..Len(demo_tokens) :
    /\ granted[i] <= DEMO_TOKEN_LIMIT
    /\ demo_tokens[i].tokens_used = granted[i]

HasRecord(token) ==
  \E i \in 1..Len(demo_tokens) : demo_tokens[i].session_token = token

\* C15: an initialize request answered 200 for a session without a record
\* leaves it with a record holding the full allowance; for a session with an
\* unexpired record it leaves tokens_used, tokens_remaining and reset_at of
\* that record as they are and adds no record; no session ever has two.
C15_InitializeIdempotent ==
  /\ [](\A i, j \in 1..Len(demo_tokens) :
          demo_tokens[i].session_token = demo_tokens[j].session_token => i = j)
  /\ [][\A h \in Handlers :
          (Finishing(h, "POST") /\ handlers'[h].res.status = 200)
          => IF ~HasRecord(handlers[h].sessionToken)
             THEN \E i \in 1..Len(demo_tokens') :
                    /\ demo_tokens'[i].session_token = handlers[h].sessionToken
                    /\ demo_tokens'[i].tokens_used = 0
                    /\ demo_tokens'[i].tokens_remaining = DEMO_TOKEN_LIMIT
             ELSE /\ Len(demo_tokens') = Len(demo_tokens)
                  /\ \A i \in 1..Len(demo_tokens) :
                       (/\ demo_tokens[i].session_token = handlers[h].sessionToken
                        /\ ~Expired(demo_tokens[i]))
                       => /\ demo_tokens'[i].tokens_used = demo_tokens[i].tokens_used
                          /\ demo_tokens'[i].tokens_remaining = demo_tokens[i].tokens_remaining
                          /\ demo_tokens'[i].reset_at = demo_tokens[i].reset_at]_vars

\* --------------------------------- claims on the browser's token functions
Returning(fns) ==
  /\ client.pc # "returned"
  /\ client'.pc = "returned"
  /\ client'.fn \in fns

\* C12: a consume of n > 0 answered by the store takes exactly n from
\* tokens_remaining and adds n to tokens_used when the balance read is at
\* least n, and consumeTokens then reports success with the new balance;
\* when the balance is below n the call fails with "Insufficient tokens".
C12_ConsumeSteps ==
  /\ [][\A h \in Handlers :
          (Finishing(h, "PUT") /\ handlers'[h].res.status = 200)
          => LET user == Snapshot(h)
                 n == handlers[h].tokensToConsume
             IN /\ demo_tokens'[user.id].tokens_remaining = user.tokens_remaining - n
                /\ demo_tokens'[user.id].tokens_used = user.tokens_used + n]_vars
  /\ [][(/\ Returning({"consumeTokens"})
          /\ client'.result.served \in {"answered", "error"})
          => LET res == handlers[client.h].res IN
             /\ res.status = 200 =>
                  /\ client'.result.success
                  /\ client'.result.status.tokensRemaining = res.tokensRemaining
             /\ res.status = 403 =>
                  /\ ~client'.result.success
                  /\ client'.result.error = "Insufficient tokens"]_vars

Fresh(status) ==
  /\ status.tokensUsed = 0
  /\ status.tokensRemaining = DEMO_TOKEN_LIMIT
  /\ status.resetAt > now

\* an initialize or getStatus request answered 200 from rows whose reset_at
\* has passed answers with no tokens used, the full allowance and a reset_at
\* ahead of now
ResetWhenAnswered ==
  \A h \in Handlers :
    (/\ Finishing(h, "GET") \/ Finishing(h, "POST")
     /\ handlers'[h].res.status = 200
     /\ handlers[h].rows # {}
     /\ \A row \in handlers[h].rows : now > row.reset_at)
    => Fresh(handlers'[h].res)

\* C13 as stated: once now > reset_at for the session's record, the next
\* getTokenStatus or initializeTokens call that is not cut off from the
\* store returns tokensUsed 0, tokensRemaining = allowance and a resetAt
\* ahead of now.
C13_ResetOnExpiry ==
  /\ [][ResetWhenAnswered]_vars
  /\ [][(/\ Returning({"getTokenStatus", "initializeTokens"})
         /\ client'.result.served = "cache"
         /\ \E i \in 1..Len(demo_tokens) :
              /\ demo_tokens[i].session_token = client'.sessionToken
              /\ now > demo_tokens[i].reset_at)
        => Fresh(client'.result.status)]_vars

\* C13 amended: once now > reset_at for the session's record, the next
\* getStatus or initialize request that the store answers returns
\* tokensUsed 0, tokensRemaining = allowance and a reset_at ahead of now, and
\* initializeTokens and getTokenStatus hand that answer on; getTokenStatus
\* answering from its cache (an entry less than 30 s old) is not covered.
C13_ResetWhenAnswered ==
  /\ [][ResetWhenAnswered]_vars
  /\ [][(/\ Returning({"getTokenStatus", "initializeTokens"})
         /\ client'.result.served = "answered")
        => /\ client'.result.status.tokensUsed = handlers[client.h].res.tokensUsed
           /\ client'.result.status.tokensRemaining = handlers[client.h].res.tokensRemaining
           /\ client'.result.status.resetAt = handlers[client.h].res.resetAt]_vars

C13_Witness ==
  /\ client.pc = "await"
  /\ client.fn \in {"getTokenStatus", "initializeTokens"}
  /\ handlers[client.h].pc = "done"
  /\ handlers[client.h].res.isReset
  /\ granted[1] = 0
  /\ now > TOKEN_RESET_HOURS

\* C16: when the store is unreachable, answers with an error or does not
\* answer in time, getTokenStatus and initializeTokens return the default
\* status: tokensUsed 0, tokensRemaining 10000, canUseTokens true.
C16_DefaultWhenUnreachable ==
  [][(/\ Returning({"getTokenStatus", "initializeTokens"})
      /\ client'.result.served \in {"unreachable", "error", "timeout"})
     => /\ client'.result.status.tokensUsed = 0
        /\ client'.result.status.tokensRemaining = DEFAULT_TOKENS_REMAINING
        /\ client'.result.status.canUseTokens]_vars

\* ------------------------------------------------ claims on the LLM client
TokenErrors == {DemoTokenLimitReached, InsufficientDemoTokens}

Refused == {"exhausted", "insufficient"}

\* C17: when the status the token backend returns for the caller's session
\* has canUseTokens false or tokensRemaining below ceil(promptLength / 4),
\* the attempt that asked sends no request to the provider: the streaming
\* attempt gives way to the fallback, which asks again, and the fallback
\* ends the call with a token error; a call both of whose attempts were
\* refused has sent the provider nothing and fails with a token error.
C17_NoRequestWithoutBudget ==
  /\ [][(/\ llm.pc = "check"
         /\ llm' # llm
         /\ handlers[llm.h].res.status = 200
         /\ \/ ~handlers[llm.h].res.canUseTokens
            \/ handlers[llm.h].res.tokensRemaining < (llm.promptLength + 3) \div 4)
        => /\ llm'.sent = llm.sent
           /\ llm'.pc # "provider"
           /\ llm.attempt = "streaming" =>
                llm'.pc = "begin" /\ llm'.attempt = "fallback"
           /\ llm.attempt = "fallback" =>
                llm'.pc = "returned" /\ llm'.error \in TokenErrors]_vars
  /\ [](llm.pc = "provider" => llm.report[llm.attempt] \notin Refused)
  /\ []((/\ llm.pc = "returned"
         /\ llm.report.streaming \in Refused
         /\ llm.report.fallback \in Refused)
        => /\ ~llm.sent.streaming
           /\ ~llm.sent.fallback
           /\ llm.error \in TokenErrors)

C17_Witness ==
  /\ llm.pc = "returned"
  /\ llm.apiKey = "key"
  /\ llm.report.streaming = "exhausted"
  /\ llm.report.fallback \in Refused
  /\ llm.error \in TokenErrors
  /\ llm.gateRequests = 2

\* C18: a call made without an API key (none, or an empty one) fails with
\* the configuration error and attempts no network call: none to the
\* provider and none to the token backend.
C18_NoNetworkWithoutKey ==
  (llm.pc # "idle" /\ llm.apiKey = "")
  => /\ llm.gateRequests = 0
     /\ ~llm.sent.streaming
     /\ ~llm.sent.fallback
     /\ llm.pc = "returned" => llm.error = NoApiKeyConfigured

\* C19: after consume requests have used up the session's allowance, the
\* next call of the LLM client fails with a token error, and the
\* orchestrator sends the sink a message for it that is not the generic
\* failure message.
C19_ExhaustionSurfaced ==
  (/\ llm.pc = "returned"
   /\ llm.apiKey = "key"
   /\ llm.report.streaming = "exhausted"
   /\ llm.report.fallback = "exhausted"
   /\ \E i \in 1..Len(demo_tokens) :
        /\ demo_tokens[i].session_token = llm.sessionToken
        /\ demo_tokens[i].tokens_remaining = 0
        /\ granted[i] = DEMO_TOKEN_LIMIT)
  => /\ llm.error \in TokenErrors
     /\ llm.message \in {"demo token limit reached",
                         "insufficient tokens remaining"}

\* ----------------------------------------------- claims on rate limiting
\* C20: when a request of the orchestrator is answered with HTTP 429, the
\* rate-limit message is delivered to the sink and the run that made the
\* request ends: it does not go on to another loop iteration.
C20_RateLimitSurfaced ==
  [][("HTTP 429" \notin raised /\ "HTTP 429" \in raised')
     => /\ \E i \in 1..Len(messages') : messages'[i].kind = "rate-limit"
        /\ \A r \in Slots : runs'[r] # runs[r] => runs'[r].pc = "idle"]_vars

\* ------------------------------------------- more claims on the token store
\* C27: a consume request that is rejected has written nothing: the table
\* is as it was when the request arrived, also when the row's reset_at had
\* passed by then (the handler has not gone through the reset UPDATE).
C27_RejectedConsumeWritesNothing ==
  [][\A h \in Handlers :
       (Finishing(h, "PUT") /\ handlers'[h].res.status # 200)
       => /\ demo_tokens' = demo_tokens
          /\ handlers[h].pc # "reset"]_vars

\* C28: a consume that is accepted sets the row's reset_at to the time of
\* the consume plus the reset window, so the row is not reset before a full
\* window has passed since then.
C28_SlidingWindow ==
  [][\A h \in Handlers :
       (Finishing(h, "PUT") /\ handlers'[h].res.status = 200)
       => LET at == IF handlers[h].pc = "reset" THEN handlers[h].now ELSE now
              id == Snapshot(h).id
          IN /\ demo_tokens'[id].reset_at = at + TOKEN_RESET_HOURS
             /\ handlers'[h].res.resetAt = at + TOKEN_RESET_HOURS]_vars

C28_Witness ==
  \E h \in Handlers :
    /\ handlers[h].method = "PUT"
    /\ handlers[h].pc = "done"
    /\ handlers[h].res.status = 200
    /\ handlers[h].res.resetAt > TOKEN_RESET_HOURS
    /\ \E i \in 1..Len(demo_tokens) :
         /\ demo_tokens[i].session_token = handlers[h].sessionToken
         /\ demo_tokens[i].reset_at = handlers[h].res.resetAt
         /\ demo_tokens[i].tokens_used > 0

\* ----------------------------------------- more claims on the LLM client
\* C29: a call of the LLM client for a caller with a session token returns
\* its completion only after a consume request for
\* ceil((promptLength + responseLength) / 4) tokens has been issued and
\* answered, on the streaming path and on the fallback alike.
C29_UsageReported ==
  [][(/\ llm.pc # "returned"
      /\ llm'.pc = "returned"
      /\ llm'.error = "none"
      /\ llm.sessionToken # "")
     => /\ llm.pc = "consume"
        /\ handlers[llm.h].method = "PUT"
        /\ 4 * handlers[llm.h].tokensToConsume
             >= llm.promptLength + llm.responseLength
        /\ 4 * (handlers[llm.h].tokensToConsume - 1)
             < llm.promptLength + llm.responseLength]_vars

\* ------------------------------------------------ more claims on the loop
HasFollowUp(id) == \E i \in 1..Len(tasks) : tasks[i].parentTaskId = id

\* the activation in slot r learns that CreateTasks gave no task or failed
NoneCreated(r) ==
  /\ runs[r].pc = "create"
  /\ runs'[r].pc \notin {"create", "emitNew"}

StatusAfter(id) ==
  LET hit == {i \in 1..Len(tasks') : tasks'[i].taskId = id}
  IN IF hit = {} THEN "none" ELSE tasks'[CHOOSE i \in hit : TRUE].status

\* C26 as stated: a task is FINAL exactly when CreateTasks gave no new task
\* for it or failed, whatever has happened to the agent meanwhile.
C26_FinalExactlyWhenNoneCreated ==
  /\ [](\A i \in 1..Len(tasks) :
          /\ tasks[i].status = TASK_STATUS_FINAL => ~HasFollowUp(tasks[i].taskId)
          /\ HasFollowUp(tasks[i].taskId) => tasks[i].status = TASK_STATUS_COMPLETED)
  /\ [][\A r \in Slots :
          NoneCreated(r) => StatusAfter(runs[r].cur) = TASK_STATUS_FINAL]_vars

\* C26, amended: while the agent has not been stopped or paused, a task is
\* marked FINAL when CreateTasks gave no new task for it or failed; a task
\* with a follow-up task is COMPLETED and never FINAL, and a follow-up task
\* carries the id of the task it was created for.
C26_FinalWhenNoneCreated ==
  /\ [](\A i \in 1..Len(tasks) :
          /\ tasks[i].status = TASK_STATUS_FINAL => ~HasFollowUp(tasks[i].taskId)
          /\ HasFollowUp(tasks[i].taskId) => tasks[i].status = TASK_STATUS_COMPLETED)
  /\ [][\A r \in Slots :
          (NoneCreated(r) /\ isRunning)
          => StatusAfter(runs[r].cur) = TASK_STATUS_FINAL]_vars
  /\ [][\A r \in Slots :
          (runs[r].pc = "emitNew" /\ runs'[r] # runs[r] /\ Len(tasks') > Len(tasks))
          => /\ tasks'[Len(tasks')].parentTaskId = runs[r].cur
             /\ tasks'[Len(tasks')].taskId = Head(runs[r].newTasks)]_vars

C26_Witness ==
  \E i, j \in 1..Len(tasks) :
    /\ tasks[i].status = TASK_STATUS_COMPLETED
    /\ tasks[j].parentTaskId = tasks[i].taskId
    /\ tasks[j].status = TASK_STATUS_FINAL

\* ------------------------------------------- claims on the Stepwise mode
Undisturbed == raised = {} /\ stopCalls = 0 /\ ~callerRejected

\* C30: in Stepwise mode no task is executed while the agent is paused and
\* the agent is not paused in the middle of a task; the first pause comes
\* when the goal and the initial tasks have been emitted and no task has
\* been taken; every loop iteration is begun by a resume, one iteration for
\* each, and when the iteration is over the pause handler is notified.
C30_StepwiseOneIterationPerResume ==
  /\ []((mode = PAUSE_MODE /\ isAgentPaused /\ agent = "live")
        => /\ AllIdle
           /\ \A i \in 1..Len(tasks) : tasks[i].status # TASK_STATUS_EXECUTING)
  /\ []((mode = PAUSE_MODE /\ numLoops = 0)
        => \A i \in 1..Len(tasks) : tasks[i].status = TASK_STATUS_STARTED)
  /\ [][(mode = PAUSE_MODE /\ ~isAgentPaused /\ isAgentPaused'
         /\ numLoops' = 0 /\ Undisturbed')
        => /\ \E i \in 1..Len(messages') : messages'[i].type = MESSAGE_TYPE_GOAL
           /\ Len(messages') = Len(tasks') + 2]_vars
  /\ [][(mode = PAUSE_MODE /\ numLoops' # numLoops)
        => /\ numLoops' = numLoops + 1
           /\ isAgentPaused /\ ~isAgentPaused']_vars
  /\ [][(mode = PAUSE_MODE /\ isAgentPaused /\ ~isAgentPaused' /\ agent' = "live")
        => numLoops' = numLoops + 1]_vars
  /\ [][\A r \in Slots :
          (/\ mode = PAUSE_MODE
           /\ runs[r].pc # "idle" /\ runs'[r].pc = "idle"
           /\ unhandledRejection' = unhandledRejection
           /\ agent' = "live")
          => isAgentPaused']_vars

\* paused again after an iteration that took a task to COMPLETED and
\* emitted a follow-up task
C30_Witness ==
  /\ mode = PAUSE_MODE
  /\ isAgentPaused
  /\ agent = "live"
  /\ numLoops = 1
  /\ \E i, j \in 1..Len(tasks) :
       /\ tasks[i].status = TASK_STATUS_COMPLETED
       /\ tasks[j].parentTaskId = tasks[i].taskId
       /\ tasks[j].status = TASK_STATUS_STARTED

\* ------------------------------------------- claims on the task extractor
\* the strings of a list that extractTasks lets through: tasks by the
\* measure of realTasksFilter that carry no prefix
PassesUnchanged(list) ==
  \A i \in 1..Len(list) :
    LET s == toLowerCase(trim(list[i])) IN
    /\ Len(s) >= 5 /\ Len(s) <= 300
    /\ ~isInvalidTask(s)
    /\ \/ \E word \in actionWords : Includes(s, word)
       \/ \E indicator \in taskIndicators : Includes(s, indicator)
    /\ prefixPattern(list[i]) = 0

\* C22 as stated: for a list of 1 to 5 plain strings without quotes,
\* extractTasks(JSON.stringify(list), []) returns that list.
C22_RoundTrip ==
  \A list \in Lists :
    (/\ call.fn = "extractTasks"
     /\ call.args = <<JSONstringify(list), <<>>>>
     /\ Len(list) >= 1)
    => call.value = list

\* C22, amended: for a list of 1 to 5 plain strings without quotes, each of
\* them a task by the measure of realTasksFilter and without a task prefix,
\* extractTasks(JSON.stringify(list), []) returns that list.
C22_RoundTripOfTasks ==
  \A list \in Lists :
    (/\ call.fn = "extractTasks"
     /\ call.args = <<JSONstringify(list), <<>>>>
     /\ Len(list) >= 1
     /\ PassesUnchanged(list))
    => call.value = list

C22_Witness ==
  \E list \in Lists :
    /\ Len(list) = MaxListLength
    /\ list[1] # list[2]
    /\ PassesUnchanged(list)
    /\ call.fn = "extractTasks"
    /\ call.args = <<JSONstringify(list), <<>>>>
    /\ call.value = list

RECURSIVE IsSubsequence(_, _)
IsSubsequence(a, b) ==
  IF a = <<>> THEN TRUE
  ELSE IF b = <<>> THEN FALSE
  ELSE IF Head(a) = Head(b) THEN IsSubsequence(Tail(a), Tail(b))
  ELSE IsSubsequence(a, Tail(b))

\* C23: no string that extractTasks returns is in the exclusion list, and
\* the strings returned for a JSON array are, in the array's order, strings
\* of the array without their prefixes.
C23_ExcludedNeverReturned ==
  call.fn = "extractTasks"
  => /\ \A i \in 1..Len(call.value) : ~Has(call.args[2], call.value[i])
     /\ \A list \in Lists :
          call.args[1] = JSONstringify(list)
          => IsSubsequence(call.value, removeTaskPrefixes(list))

\* C24: removeTaskPrefix applied to what removeTaskPrefix returned changes
\* nothing.
C24_Idempotent ==
  call.fn = "removeTaskPrefix"
  => removeTaskPrefix(call.value) = call.value

\* ----------------------------------------- claims on the Planning Service
ServiceFunctions ==
  {"startGoalAgent", "analyzeTaskAgent", "executeTaskAgent", "createTasksAgent"}

IsString(x) == DOMAIN x = 1..Len(x)

\* C21: whatever the call of the LLM gives (a completion that parses, one
\* that does not, or a configuration, budget or provider error), the four
\* agent functions and extractTasks throw nothing and return a value of
\* their kind: a list of strings (not empty for StartGoal), an Analysis
\* with an action and an argument, a string.
C21_NeverRaises ==
  /\ call.fn \in ServiceFunctions \cup {"extractTasks"} => ~call.raised
  /\ call.fn = "startGoalAgent"
     => /\ Len(call.value) >= 1
        /\ \A i \in 1..Len(call.value) : IsString(call.value[i])
  /\ call.fn = "analyzeTaskAgent"
     => /\ call.value.action # <<>>
        /\ call.value.arg # <<>>
  /\ call.fn = "executeTaskAgent" => IsString(call.value)
  /\ call.fn \in {"createTasksAgent", "extractTasks"}
     => \A i \in 1..Len(call.value) : IsString(call.value[i])

\* the LLM is out of budget and StartGoal answers with tasks all the same
C21_Witness ==
  /\ call.fn = "startGoalAgent"
  /\ call.args[2].kind = "error"
  /\ call.args[2].error = DemoTokenLimitReached
  /\ ~call.raised
  /\ Len(call.value) = 4

\* C25: CreateTasks returns no task when completed/(completed+remaining+1)
\* is above 0.7 with at most 2 tasks remaining, and when more than 4 tasks
\* remain; it never returns more than 2 tasks.
C25_CreateTasksLimits ==
  call.fn = "createTasksAgent"
  => LET remaining == Len(call.args[2])
         completed == Len(call.args[3])
     IN /\ (10 * completed > 7 * (completed + remaining + 1) /\ remaining <= 2)
           => call.value = <<>>
        /\ remaining > 4 => call.value = <<>>
        /\ Len(call.value) <= 2

\* the LLM proposed two new tasks and the progress ratio suppressed them
C25_Witness ==
  /\ call.fn = "createTasksAgent"
  /\ Len(call.args[2]) = 2
  /\ 10 * Len(call.args[3]) > 7 * (Len(call.args[3]) + 3)
  /\ call.args[4].kind = "completion"
  /\ Len(extractTasks(call.args[4].text, call.args[3])) = 2
  /\ call.value = <<>>

\* ------------------------------------------------------ the loop budget
LoopLimitLast ==
  Len(messages) > 0 /\ Last(messages).kind = "loop-limit"

\* what bounds a run whose budget is L
BoundedBy(L) ==
  /\ maxLoops = L
  /\ numLoops <= L + 1
  /\ LoopLimitLast => numLoops = L + 1

\* C31 as stated: the budget is 4 without a usable API key (16 with a
\* subscription) and 50 with one, and an explicitly configured max-loop
\* value, when set, replaces the default ceiling of the run.
C31_ConfiguredReplacesDefault ==
  BoundedBy(IF modelSettings.customMaxLoops # 0 THEN modelSettings.customMaxLoops
            ELSE IF hasValidApiKey THEN 50
            ELSE IF session = "subscribed" THEN 16
            ELSE 4)

\* C31, amended: the budget is 4 without a usable API key (16 with a
\* subscription), whatever max-loop value is configured; with a usable key
\* it is the configured max-loop value when one is set, and 50 otherwise.
C31_ConfiguredReplacesKeyedDefault ==
  BoundedBy(IF ~hasValidApiKey THEN (IF session = "subscribed" THEN 16 ELSE 4)
            ELSE IF modelSettings.customMaxLoops # 0
                 THEN modelSettings.customMaxLoops
            ELSE 50)

\* a keyed run with a configured budget has ended at that budget
C31_Witness ==
  /\ hasValidApiKey
  /\ modelSettings.customMaxLoops = MaxCustomLoops
  /\ LoopLimitLast
  /\ numLoops = MaxCustomLoops + 1

\* C34: in a run that nobody stopped, the shutdown callback is invoked at
\* most once, whichever way the run ends.
C34_ShutdownAtMostOnce == stopCalls = 0 => shutdownCalls <= 1

\* C35: once StartGoal has raised, the "all tasks completed" message is
\* not among the messages of the run.
C35_NoCompletionAfterGoalFailure ==
  "StartGoal" \in raised => KindCount("all-tasks-completed") = 0

\* C39: in every reachable state of the token store, each row has
\* tokens_used + tokens_remaining equal to the allowance, under any
\* interleaving of initialize, status, consume and reset requests.
C39_UsedPlusRemaining ==
  \A i \in 1..Len(demo_tokens) :
    demo_tokens[i].tokens_used + demo_tokens[i].tokens_remaining = DEMO_TOKEN_LIMIT

\* two consume requests overlapped on a row and one of the two grants was
\* overwritten by the other: the row still adds up to the allowance
C39_Witness ==
  \E i \in 1..Len(demo_tokens) :
    /\ granted[i] > demo_tokens[i].tokens_used
    /\ demo_tokens[i].tokens_used > 0
    /\ demo_tokens[i].tokens_used + demo_tokens[i].tokens_remaining = DEMO_TOKEN_LIMIT

\* ----------------------------------------------- claims on the session log
\* C33: getTokenStatus answers from the cache only with a status of the
\* same session that the store answered less than 30 s before, after any
\* sequence of status, consume and session-log calls.
C33_CachedStatusIsRecent ==
  [][(/\ client.pc = "idle"
      /\ client'.pc = "returned"
      /\ client'.fn = "getTokenStatus"
      /\ client'.result.served = "cache")
     => /\ cache.sessionToken = client'.sessionToken
        /\ now - cache.statusAt < CACHE_TTL]_vars

\* ------------------------------------------- the budget of a demo session
\* the row of a session
RecordOf(sessionToken) ==
  CHOOSE i \in 1..Len(demo_tokens) : demo_tokens[i].session_token = sessionToken

\* C37: a session cannot complete unboundedly many successful calls in one
\* reset window.  tokens_remaining is a natural number, so it is enough, and
\* it is what the claim rests on, that every call whose streaming attempt
\* returns a completion for a session whose status passed the check before
\* the request has drawn the row down: its consume request was answered 200
\* for a positive amount.
C37_SuccessDrawsDown ==
  [][(/\ llm.pc # "returned"
      /\ llm'.pc = "returned"
      /\ llm'.error = "none"
      /\ llm.attempt = "streaming"
      /\ llm.sessionToken # ""
      /\ llm.report["streaming"] = "passed")
     => /\ llm.pc = "consume"
        /\ handlers[llm.h].res.status = 200
        /\ handlers[llm.h].tokensToConsume > 0
        /\ demo_tokens[RecordOf(llm.sessionToken)].tokens_remaining
             < DEMO_TOKEN_LIMIT]_vars


\* ------------------------------------------------ the size of the backlog
\* the initial tasks recorded so far: the tasks without a parent
InitialTaskCount ==
  Cardinality(SelectIdx(tasks, LAMBDA t : t.parentTaskId = NoTask))

StartedCount == Len(getRemainingTasks(tasks))

\* C36: with follow-up tasks coming from createTasksAgent, the number of
\* tasks with status STARTED never exceeds the larger of 6 and the number
\* of initial tasks, whatever the model completes with.
C36_BacklogBounded ==
  StartedCount <= (IF InitialTaskCount > 6 THEN InitialTaskCount ELSE 6)

\* four initial tasks have grown into a backlog of six
C36_Witness ==
  /\ InitialTaskCount = 4
  /\ StartedCount = 6
  /\ Len(completedTasks) = 2


AdmittedIn(id, from) ==
  Cardinality({ i \in 1..Len(limiter.served) :
                  /\ limiter.served[i].id = id
                  /\ limiter.served[i].status = 200
                  /\ limiter.served[i].at >= from
                  /\ limiter.served[i].at < from + windowMs })

\* C40: for any client id the limiter admits at most
\* RATE_LIMITER_REQUESTS_PER_MINUTE requests in any interval of one minute.
C40_AtMostLimitPerMinute ==
  \A id \in ClientIds : \A from \in 0..MaxClock :
    AdmittedIn(id, from) <= REQUESTS_PER_MINUTE


\* ------------------------------------------------ the decoded stream
\* C32: the string a stream decoder returns is the concatenation, in
\* order, of the content deltas before [DONE], wherever the network cuts
\* the stream.
C32_DecodedIsConcatenation ==
  call.fn \in Decoders => call.value = Flatten(call.args[1])

====
